---- MODULE Spec2Model ----
(***************************************************************************)
(* Context Assembly Engine (modules/context_assembly_engine/service.py).   *)
(* The engine is built once (ContextAssemblyEngine.__init__) and then      *)
(* assemble() is called on it; one call runs the phases                    *)
(*   resolve mode -> analyze -> build blocks -> goals -> rules (clamp)     *)
(*   -> memory blocks -> select within budget -> format -> manifest.       *)
(* Texts are strings, priorities and deltas are whole numbers, a memory's  *)
(* confidence is counted in twentieths where assemble() reads it.          *)
(* advance_memory_lifecycle, revise_memory, compute_temporal and the two    *)
(* forms of a block definition (RuntimeBlockDef, BlockDef) are modelled     *)
(* after it, each with the specification that calls it.                    *)
(***************************************************************************)
EXTENDS Integers, Sequences, FiniteSets, TLC

VARIABLES
    engine,     \* the constructed ContextAssemblyEngine
    args,       \* the caller's arguments: entity_id, data, mode, goals, memories
    clock,      \* the wall clock read by datetime.utcnow
    run,        \* the locals of the latest assemble() call (<<>> before the first)
    returned,   \* the (text, manifest) pairs returned so far, latest last (two kept)
    life,       \* the stored Memory under advance_memory_lifecycle / revise_memory
    temporal,   \* the caller's observation list and what compute_temporal returned
    declared    \* the block definitions written so far, each in both forms

vars == <<engine, args, clock, run, returned, life, temporal, declared>>

-----------------------------------------------------------------------------
(* Bounds of the model *)

MaxClock == 1       \* the clock takes the values 0..MaxClock
MaxGoals == 2       \* longest goals list passed to assemble
MaxMemories == 1    \* longest memories list passed to assemble
MaxChars == 8       \* longest raw data text
MaxStored == 2      \* longest memories list where the memories' stages vary
MaxEvents == 3      \* lifecycle events applied to one stored memory
MaxObs == 3         \* observations in one list given to compute_temporal
MaxDay == 3         \* latest day an observation is stamped with
MaxDefs == 2        \* block definitions written in one configuration
MaxRun == 7         \* consecutive reinforce events on one memory

-----------------------------------------------------------------------------
(* Python values *)

None == "<None>"

Truthy(v) == v # None /\ v # ""

Max(a, b) == IF a >= b THEN a ELSE b
Min(a, b) == IF a <= b THEN a ELSE b

\* dict.get(k, default)
Get(d, k, default) == IF k \in DOMAIN d THEN d[k] ELSE default

\* "x" * n
RECURSIVE Repeat(_, _)
Repeat(s, n) == IF n <= 0 THEN "" ELSE s \o Repeat(s, n - 1)

\* "\n".join(parts)
RECURSIVE Join(_)
Join(parts) ==
    IF Len(parts) = 0 THEN ""
    ELSE IF Len(parts) = 1 THEN parts[1]
    ELSE parts[1] \o "\n" \o Join(Tail(parts))

\* f"{adj:+.0f}" for a whole number
SignedStr(adj) == IF adj >= 0 THEN "+" \o ToString(adj) ELSE ToString(adj)

\* f"{confidence:.1f}" for a confidence of c twentieths
ConfidenceStr(c) ==
    <<"0.0", "0.1", "0.1", "0.1", "0.2", "0.2", "0.3", "0.3", "0.4", "0.5", "0.5",
      "0.6", "0.6", "0.7", "0.7", "0.8", "0.8", "0.8", "0.9", "0.9", "1.0">>[c + 1]

RECURSIVE SumTokens(_)
SumTokens(bs) ==
    IF Len(bs) = 0 THEN 0 ELSE bs[1].estimated_tokens + SumTokens(Tail(bs))

-----------------------------------------------------------------------------
(* models.py *)

GoalStatus == {"active", "paused", "completed", "abandoned"}

MemoryStage == {"draft", "reinforced", "mature", "decaying", "revised", "archived"}

Tier == [always |-> 1, conditional |-> 2, strong_signal |-> 3]

TIER_BASE_PRIORITY == (1 :> 90) @@ (2 :> 60) @@ (3 :> 30)

ModeConfig(name, budget, block_keys) ==
    [name |-> name, budget |-> budget, block_keys |-> block_keys]

\* Block(...) with the model's defaults for the fields not given
Block(key, category, priority, base_priority, estimated_tokens, exclude_reason, formatted_text, signals) ==
    [key |-> key, category |-> category, priority |-> priority,
     base_priority |-> base_priority, estimated_tokens |-> estimated_tokens,
     included |-> FALSE, exclude_reason |-> exclude_reason,
     formatted_text |-> formatted_text, signals |-> signals]

Situation(timestamp, flags, narrative) ==
    [entity_id |-> "", mode |-> "default", timestamp |-> timestamp,
     flags |-> flags, narrative |-> narrative]

has_flag(sit, flag) == Truthy(Get(sit.flags, flag, None))

-----------------------------------------------------------------------------
(* service.py: definitions and callables *)

estimate_tokens(text) == Max(1, Len(text) \div 4)

_default_format(data, sit) == IF Truthy(data) THEN data ELSE ""

_always_include(data, sit) == TRUE

\* The callables a configuration supplies, by name.
FormatFn(fn, data, sit) ==
    IF fn = "value" THEN "Value: " \o data      \* lambda data, sit: f"Value: {data}"
    ELSE _default_format(data, sit)

ShouldInclude(fn, data, sit) ==
    IF fn.kind = "has_flag" THEN has_flag(sit, fn.flag)
    ELSE _always_include(data, sit)

RuleCondition(fn, sit) ==
    IF fn.kind = "has_flag" THEN has_flag(sit, fn.flag)
    ELSE ~has_flag(sit, fn.flag)                \* lambda sit: not sit.has_flag(f)

\* A callable over the Situation: no callable given, has_flag(f), not has_flag(f)
NoCallable == [kind |-> "", flag |-> ""]
HasFlag(f) == [kind |-> "has_flag", flag |-> f]
NotFlag(f) == [kind |-> "not_flag", flag |-> f]

\* base_priority is <<>> for None and <<p>> for the number p
RuntimeBlockDef(key, tier, base_priority, category, gatherer_key, format_fn, should_include) ==
    [key |-> key,
     tier |-> tier,
     base_priority |-> IF base_priority # <<>> /\ base_priority[1] # 0
                       THEN base_priority[1]
                       ELSE Get(TIER_BASE_PRIORITY, tier, 60),
     category |-> category,
     gatherer_key |-> IF Truthy(gatherer_key) THEN gatherer_key ELSE key,
     format_fn |-> IF format_fn # None THEN format_fn ELSE "_default_format",
     should_include |-> IF should_include.kind # "" THEN should_include
                        ELSE [kind |-> "_always_include", flag |-> ""]]

\* models.py: BlockDef, the serializable definition; base_priority stays
\* optional (<<>> for None, <<p>> for the number p)
BlockDef(key, tier, base_priority, category, description) ==
    [key |-> key, tier |-> tier, base_priority |-> base_priority,
     category |-> category, description |-> description]

\* BlockDef.effective_priority
effective_priority(bd) ==
    IF bd.base_priority # <<>> THEN bd.base_priority[1]
    ELSE Get(TIER_BASE_PRIORITY, bd.tier, 60)

ScoringRule(name, condition, adjustments) ==
    [name |-> name, condition |-> condition, adjustments |-> adjustments]

\* ScoringRule.apply
apply(rule, sit) ==
    IF RuleCondition(rule.condition, sit) THEN rule.adjustments ELSE <<>>

_default_analyzer(data, now) == Situation(now, data, "")

\* {bd.key: bd for bd in block_defs}: a key keeps the position of its first
\* definition and the value of its last
RECURSIVE DefsDict(_, _)
DefsDict(acc, defs) ==
    IF Len(defs) = 0 THEN acc
    ELSE LET bd == defs[1]
             at == {i \in 1..Len(acc) : acc[i].key = bd.key}
         IN  DefsDict(IF at = {} THEN Append(acc, bd)
                      ELSE [i \in 1..Len(acc) |-> IF i \in at THEN bd ELSE acc[i]],
                      Tail(defs))

\* ContextAssemblyEngine.__init__
ContextAssemblyEngine(name, block_defs, scoring_rules, analyze_situation, modes, default_budget) ==
    [name |-> name,
     block_defs |-> DefsDict(<<>>, block_defs),
     scoring_rules |-> scoring_rules,
     analyze_situation |-> IF analyze_situation # None THEN analyze_situation
                           ELSE "_default_analyzer",
     modes |-> IF DOMAIN modes # {} THEN modes
               ELSE [m \in {"default"} |-> ModeConfig("default", default_budget, <<>>)],
     default_budget |-> default_budget]

\* self.block_defs.get(key): <<>> when there is none, else <<block_def>>
BlockDefGet(eng, key) ==
    LET at == {i \in 1..Len(eng.block_defs) : eng.block_defs[i].key = key}
    IN  IF at = {} THEN <<>> ELSE <<eng.block_defs[CHOOSE i \in at : TRUE]>>

BlockDefKeys(eng) == [i \in 1..Len(eng.block_defs) |-> eng.block_defs[i].key]

-----------------------------------------------------------------------------
(* service.py: the pipeline steps of ContextAssemblyEngine *)

\* _build_blocks, the loop over active_keys; format_calls collects the keys
\* whose format_fn was called
RECURSIVE BuildLoop(_, _, _, _, _)
BuildLoop(eng, keys, data, sit, acc) ==
    IF Len(keys) = 0 THEN acc
    ELSE LET key == keys[1]
             got == BlockDefGet(eng, key)
         IN  IF got = <<>> THEN BuildLoop(eng, Tail(keys), data, sit, acc)
             ELSE LET block_def == got[1]
                      raw_data == Get(data, block_def.gatherer_key, None)
                  IN  IF raw_data = None
                      THEN BuildLoop(eng, Tail(keys), data, sit, acc)
                      ELSE IF ~ShouldInclude(block_def.should_include, raw_data, sit)
                      THEN BuildLoop(eng, Tail(keys), data, sit,
                               [acc EXCEPT !.blocks = Append(@,
                                   Block(key, block_def.category, 0, block_def.base_priority,
                                         0, "should_include gate: False", "", <<>>))])
                      ELSE LET formatted == FormatFn(block_def.format_fn, raw_data, sit)
                               tokens == estimate_tokens(formatted)
                           IN  BuildLoop(eng, Tail(keys), data, sit,
                                   [blocks |-> Append(acc.blocks,
                                        Block(key, block_def.category, block_def.base_priority,
                                              block_def.base_priority, tokens, None,
                                              formatted, <<>>)),
                                    format_calls |-> acc.format_calls \cup {key}])

_build_blocks(eng, data, sit, mode_cfg) ==
    LET active_keys == IF Len(mode_cfg.block_keys) > 0 THEN mode_cfg.block_keys
                       ELSE BlockDefKeys(eng)
    IN  BuildLoop(eng, active_keys, data, sit, [blocks |-> <<>>, format_calls |-> {}])

\* one goal of _apply_goal_adjustments applied to every block
GoalStep(bs, goal) ==
    [i \in 1..Len(bs) |->
        LET adj == Get(goal.priority_adjustments, bs[i].key, 0)
        IN  IF adj # 0
            THEN [bs[i] EXCEPT !.priority = @ + adj,
                               !.signals = Append(@, "goal:" \o goal.name \o ":" \o SignedStr(adj))]
            ELSE bs[i]]

\* variant: the status of a goal is not looked at
RECURSIVE GoalsOfAnyStatus(_, _)
GoalsOfAnyStatus(bs, goals) ==
    IF Len(goals) = 0 THEN bs ELSE GoalsOfAnyStatus(GoalStep(bs, goals[1]), Tail(goals))

\* variant: the priorities are clamped once the goals are applied
RECURSIVE GoalsThenClamp(_, _)
GoalsThenClamp(bs, goals) ==
    IF Len(goals) = 0
    THEN [i \in 1..Len(bs) |-> [bs[i] EXCEPT !.priority = Max(0, Min(100, @))]]
    ELSE GoalsThenClamp(
             IF goals[1].status # "active" THEN bs ELSE GoalStep(bs, goals[1]),
             Tail(goals))

RECURSIVE _apply_goal_adjustments(_, _)
_apply_goal_adjustments(bs, goals) ==
    IF Len(goals) = 0 THEN bs
    ELSE _apply_goal_adjustments(
             IF goals[1].status # "active" THEN bs ELSE GoalStep(bs, goals[1]),
             Tail(goals))

\* variant: the rule's deltas are applied whatever its condition says
RuleStepUnconditional(bs, rule, sit) ==
    [i \in 1..Len(bs) |->
        LET adj == Get(rule.adjustments, bs[i].key, 0)
        IN  IF adj # 0
            THEN [bs[i] EXCEPT !.priority = @ + adj,
                               !.signals = Append(@, "rule:" \o rule.name \o ":" \o SignedStr(adj))]
            ELSE bs[i]]

\* one rule of _apply_scoring_rules applied to every block
RuleStep(bs, rule, sit) ==
    LET adjustments == apply(rule, sit)
    IN  [i \in 1..Len(bs) |->
            LET adj == Get(adjustments, bs[i].key, 0)
            IN  IF adj # 0
                THEN [bs[i] EXCEPT !.priority = @ + adj,
                                   !.signals = Append(@, "rule:" \o rule.name \o ":" \o SignedStr(adj))]
                ELSE bs[i]]

\* variant: the rules are applied last to first
RECURSIVE RuleLoopReversed(_, _, _)
RuleLoopReversed(bs, rules, sit) ==
    IF Len(rules) = 0 THEN bs
    ELSE RuleStep(RuleLoopReversed(bs, Tail(rules), sit), rules[1], sit)

RECURSIVE RuleLoop(_, _, _)
RuleLoop(bs, rules, sit) ==
    IF Len(rules) = 0 THEN bs
    ELSE RuleLoop(RuleStep(bs, rules[1], sit), Tail(rules), sit)

\* variant: only the upper limit is kept
ClampUpper(p) == Min(100, p)

Clamp(p) == Max(0, Min(100, p))

_apply_scoring_rules(bs, sit, rules) ==
    LET scored == RuleLoop(bs, rules, sit)
    IN  [i \in 1..Len(scored) |-> [scored[i] EXCEPT !.priority = Clamp(@)]]

\* base = 40 + confidence * 40, the confidence counted in twentieths
MemoryBase(mem) == 40 + 2 * mem.confidence

MemoryText(mem) ==
    LET formatted == "[Memory: " \o mem.category \o "] " \o mem.summary
    IN  IF mem.detail # "" THEN formatted \o "\n" \o mem.detail ELSE formatted

\* mem.id or mem.summary[:30]; summaries of the model are under 30 characters
MemoryKey(mem) == "memory:" \o (IF Truthy(mem.id) THEN mem.id ELSE mem.summary)

\* variant: the stage of a memory is not looked at
RECURSIVE MemoryBlocksOfAnyStage(_)
MemoryBlocksOfAnyStage(memories) ==
    IF Len(memories) = 0 THEN <<>>
    ELSE LET mem == memories[1]
         IN  <<Block(MemoryKey(mem), "memory." \o mem.category, MemoryBase(mem),
                     MemoryBase(mem), estimate_tokens(MemoryText(mem)), None,
                     MemoryText(mem),
                     <<"confidence:" \o ConfidenceStr(mem.confidence),
                       "stage:" \o mem.stage>>)>>
             \o MemoryBlocksOfAnyStage(Tail(memories))

RECURSIVE _build_memory_blocks(_)
_build_memory_blocks(memories) ==
    IF Len(memories) = 0 THEN <<>>
    ELSE LET mem == memories[1]
             rest == _build_memory_blocks(Tail(memories))
         IN  IF mem.stage = "archived" THEN rest
             ELSE <<Block(MemoryKey(mem), "memory." \o mem.category, MemoryBase(mem),
                          MemoryBase(mem), estimate_tokens(MemoryText(mem)), None,
                          MemoryText(mem),
                          <<"confidence:" \o ConfidenceStr(mem.confidence),
                            "stage:" \o mem.stage>>)>> \o rest

\* list.sort(key=priority, reverse=True): stable, larger priority first
\* variant: an equal priority goes in front (an unstable sort)
RECURSIVE InsertDescStrict(_, _)
InsertDescStrict(sorted, b) ==
    IF Len(sorted) = 0 THEN <<b>>
    ELSE IF sorted[1].priority > b.priority
         THEN <<sorted[1]>> \o InsertDescStrict(Tail(sorted), b)
         ELSE <<b>> \o sorted

RECURSIVE InsertDesc(_, _)
InsertDesc(sorted, b) ==
    IF Len(sorted) = 0 THEN <<b>>
    ELSE IF sorted[1].priority >= b.priority
         THEN <<sorted[1]>> \o InsertDesc(Tail(sorted), b)
         ELSE <<b>> \o sorted

RECURSIVE SortDesc(_, _)
SortDesc(acc, bs) ==
    IF Len(bs) = 0 THEN acc ELSE SortDesc(InsertDesc(acc, bs[1]), Tail(bs))

BudgetReason(remaining) == "budget: " \o ToString(remaining) \o " tokens remaining"

\* variant: an included block's tokens are not taken off the remaining budget
SelectStepNoSpend(acc, block) ==
    IF block.estimated_tokens <= acc.remaining
    THEN [acc EXCEPT !.included = Append(@, [block EXCEPT !.included = TRUE])]
    ELSE [acc EXCEPT !.excluded = Append(@, [block EXCEPT !.included = FALSE,
                                    !.exclude_reason = BudgetReason(acc.remaining)])]

\* variant: a block that does not fit is set aside without a reason
SelectStepNoReason(acc, block) ==
    IF block.estimated_tokens <= acc.remaining
    THEN [acc EXCEPT !.included = Append(@, [block EXCEPT !.included = TRUE]),
                     !.remaining = @ - block.estimated_tokens]
    ELSE [acc EXCEPT !.excluded = Append(@, [block EXCEPT !.included = FALSE])]

\* the body of the selection loop for one block
SelectStep(acc, block) ==
    IF block.estimated_tokens <= acc.remaining
    THEN [acc EXCEPT !.included = Append(@, [block EXCEPT !.included = TRUE]),
                     !.remaining = @ - block.estimated_tokens]
    ELSE [acc EXCEPT !.excluded = Append(@, [block EXCEPT !.included = FALSE,
                                    !.exclude_reason = BudgetReason(acc.remaining)])]

\* variant: the scan stops at the first block that does not fit
RECURSIVE SelectLoopBreak(_, _)
SelectLoopBreak(acc, scoreable) ==
    IF Len(scoreable) = 0 THEN acc
    ELSE IF scoreable[1].estimated_tokens <= acc.remaining
         THEN SelectLoopBreak(
                  [acc EXCEPT !.included = Append(@, [scoreable[1] EXCEPT !.included = TRUE]),
                              !.remaining = @ - scoreable[1].estimated_tokens],
                  Tail(scoreable))
         ELSE [acc EXCEPT !.excluded = @ \o
                  [i \in 1..Len(scoreable) |->
                      [scoreable[i] EXCEPT !.included = FALSE,
                                           !.exclude_reason = BudgetReason(acc.remaining)]]]

RECURSIVE SelectLoop(_, _)
SelectLoop(acc, scoreable) ==
    IF Len(scoreable) = 0 THEN acc
    ELSE SelectLoop(SelectStep(acc, scoreable[1]), Tail(scoreable))

\* variant: blocks that already carry an exclude reason are scored too
ScoreableAll(bs) == bs

Scoreable(bs) == SelectSeq(bs, LAMBDA b : b.exclude_reason = None)

PreExcluded(bs) == SelectSeq(bs, LAMBDA b : b.exclude_reason # None)

\* returns included and excluded; scoreable is the sorted local, kept for inspection
_select_within_budget(bs, budget) ==
    LET scoreable == SortDesc(<<>>, Scoreable(bs))
        sel == SelectLoop([included |-> <<>>, excluded |-> PreExcluded(bs),
                           remaining |-> budget], scoreable)
    IN  [included |-> sel.included, excluded |-> sel.excluded, scoreable |-> scoreable]

\* sorted(by_category.items()): the categories of the model in string order
CategoryOrder ==
    <<"aux", "context", "general", "memory.behavioral_pattern",
      "memory.breakthrough_moment", "memory.coaching_thread",
      "memory.domain_knowledge", "memory.emotional_signature">>

CategoryOf(b) == IF b.category # "" THEN b.category ELSE "general"

SectionOf(block) == "## " \o block.key \o "\n" \o block.formatted_text \o "\n"

\* f"{progress:.0%}", the progress counted in whole percents
PercentStr(progress) == ToString(progress) \o "%"

GoalLine(g) == "- **" \o g.name \o "**: " \o g.description \o " (" \o PercentStr(g.progress) \o ")"

\* variant: the sections follow the included list, categories are not grouped
SectionsAsIncluded(cats, bs) == [i \in 1..Len(bs) |-> SectionOf(bs[i])]

RECURSIVE CategorySections(_, _)
CategorySections(cats, bs) ==
    IF Len(cats) = 0 THEN <<>>
    ELSE LET cat_blocks == SelectSeq(bs, LAMBDA b : CategoryOf(b) = cats[1])
         IN  [i \in 1..Len(cat_blocks) |-> SectionOf(cat_blocks[i])]
             \o CategorySections(Tail(cats), bs)

_format_for_llm(bs, sit, goals) ==
    LET active == SelectSeq(goals, LAMBDA g : g.status = "active")
        lines == <<"## Active Goals">> \o [i \in 1..Len(active) |-> GoalLine(active[i])]
        sections ==
            (IF sit.narrative # ""
             THEN <<"## Current Situation\n" \o sit.narrative \o "\n">> ELSE <<>>)
            \o (IF Len(active) > 0 THEN <<Join(lines) \o "\n">> ELSE <<>>)
            \o CategorySections(CategoryOrder, bs)
    IN  Join(sections)

\* variant: remaining_tokens is not brought up to date
BudgetStale(total_tokens, used_tokens, remaining_tokens, blocks_included, blocks_excluded) ==
    [total_tokens |-> total_tokens, used_tokens |-> used_tokens,
     remaining_tokens |-> total_tokens, blocks_included |-> blocks_included,
     blocks_excluded |-> blocks_excluded]

Budget(total_tokens, used_tokens, remaining_tokens, blocks_included, blocks_excluded) ==
    [total_tokens |-> total_tokens, used_tokens |-> used_tokens,
     remaining_tokens |-> remaining_tokens, blocks_included |-> blocks_included,
     blocks_excluded |-> blocks_excluded]

ManifestEntry(b) ==
    [key |-> b.key, category |-> b.category, base_priority |-> b.base_priority,
     final_priority |-> b.priority, estimated_tokens |-> b.estimated_tokens,
     included |-> b.included, exclude_reason |-> b.exclude_reason, signals |-> b.signals]

\* Manifest(...): the timestamp field defaults to datetime.utcnow()
Manifest(entity_id, mode, now, sit, budget, entries, text) ==
    [entity_id |-> entity_id, mode |-> mode, timestamp |-> now, situation |-> sit,
     budget |-> budget, entries |-> entries, assembled_text |-> text,
     total_blocks_considered |-> Len(entries)]

\* variant: the analyzer writes the time of the call into the narrative
AnalyzeClocked(eng, data, now) == Situation(now, data, "At " \o ToString(now))

\* self.analyze_situation(data)
\* "narrated" builds a Situation with a narrative; "cached" is an analyzer that
\* hands out the one Situation it built when it was set up (at time 0)
Analyze(eng, data, now) ==
    IF eng.analyze_situation = "narrated" THEN Situation(now, data, "Steady week.")
    ELSE IF eng.analyze_situation = "cached" THEN Situation(0, ("boost" :> "1"), "")
    ELSE _default_analyzer(data, now)

\* variant: an unknown mode is looked up as "default"
ResolveModeAsDefault(eng, mode) == Get(eng.modes, mode, eng.modes["default"])

\* self.modes.get(mode, ModeConfig(name=mode, budget=self.default_budget))
ResolveMode(eng, mode) == Get(eng.modes, mode, ModeConfig(mode, eng.default_budget, <<>>))

\* variant: the memory blocks join the candidates before the goal and rule deltas
assembleMemoriesFirst(eng, a, now) ==
    LET mode_cfg == ResolveMode(eng, a.mode)
        budget_limit == mode_cfg.budget
        sit == [Analyze(eng, a.data, now) EXCEPT !.entity_id = a.entity_id, !.mode = a.mode]
        built == _build_blocks(eng, a.data, sit, mode_cfg)
        adjusted == _apply_goal_adjustments(built.blocks \o _build_memory_blocks(a.memories),
                                            a.goals)
        candidates == _apply_scoring_rules(adjusted, sit, eng.scoring_rules)
        sel == _select_within_budget(candidates, budget_limit)
        text == _format_for_llm(sel.included, sit, a.goals)
        budget == Budget(budget_limit, SumTokens(sel.included),
                         budget_limit - SumTokens(sel.included),
                         Len(sel.included), Len(sel.excluded))
        both == sel.included \o sel.excluded
        entries == [i \in 1..Len(both) |-> ManifestEntry(both[i])]
    IN  [mode_config |-> mode_cfg, situation |-> sit, blocks |-> candidates,
         scoreable |-> sel.scoreable,
         included |-> sel.included, excluded |-> sel.excluded,
         format_calls |-> built.format_calls, text |-> text,
         manifest |-> Manifest(a.entity_id, a.mode, now, sit, budget, entries, text)]

\* assemble(): every local of the call and the pair it returns
assemble(eng, a, now) ==
    LET mode_cfg == ResolveMode(eng, a.mode)
        budget_limit == mode_cfg.budget
        sit == [Analyze(eng, a.data, now) EXCEPT !.entity_id = a.entity_id, !.mode = a.mode]
        built == _build_blocks(eng, a.data, sit, mode_cfg)
        adjusted == _apply_goal_adjustments(built.blocks, a.goals)
        scored == _apply_scoring_rules(adjusted, sit, eng.scoring_rules)
        candidates == scored \o _build_memory_blocks(a.memories)
        sel == _select_within_budget(candidates, budget_limit)
        text == _format_for_llm(sel.included, sit, a.goals)
        budget == Budget(budget_limit, SumTokens(sel.included),
                         budget_limit - SumTokens(sel.included),
                         Len(sel.included), Len(sel.excluded))
        both == sel.included \o sel.excluded
        entries == [i \in 1..Len(both) |-> ManifestEntry(both[i])]
    IN  [mode_config |-> mode_cfg, situation |-> sit, blocks |-> candidates,
         scoreable |-> sel.scoreable,
         included |-> sel.included, excluded |-> sel.excluded,
         format_calls |-> built.format_calls, text |-> text,
         manifest |-> Manifest(a.entity_id, a.mode, now, sit, budget, entries, text)]

-----------------------------------------------------------------------------
(* service.py: the memory lifecycle *)

\* A confidence is a Python float. <<h, e>> is the float that lies e units of
\* 2^-60 above the float of the literal h/100: 0.35 is <<35, 0>>, and
\* 0.3 + 0.15 = 0.44999999999999996 is <<45, -64>>.
Float(h) == <<h, 0>>

FloatLess(x, y) == x[1] < y[1] \/ (x[1] = y[1] /\ x[2] < y[2])

\* variant: no cap, the second argument is returned
FloatSecond(x, y) == y

FloatMin(x, y) == IF FloatLess(y, x) THEN y ELSE x

FloatMax(x, y) == IF FloatLess(x, y) THEN y ELSE x

\* x + 0.15 in IEEE double arithmetic, for the floats the lifecycle reaches
Plus015Table ==
    {<<<<0, 0>>, <<15, 0>>>>, <<<<0, 16>>, <<15, 32>>>>, <<<<5, -16>>, <<20, -32>>>>,
     <<<<5, 0>>, <<20, 0>>>>, <<<<5, 16>>, <<20, 0>>>>, <<<<10, -16>>, <<25, 0>>>>,
     <<<<10, 0>>, <<25, 0>>>>, <<<<10, 16>>, <<25, 0>>>>, <<<<15, -32>>, <<30, -64>>>>,
     <<<<15, 0>>, <<30, 0>>>>, <<<<15, 32>>, <<30, 64>>>>, <<<<20, -32>>, <<35, 0>>>>,
     <<<<20, 0>>, <<35, 0>>>>, <<<<20, 64>>, <<35, 128>>>>, <<<<25, 0>>, <<40, 0>>>>,
     <<<<25, 64>>, <<40, 0>>>>, <<<<30, 0>>, <<45, -64>>>>, <<<<30, 64>>, <<45, 64>>>>,
     <<<<35, 0>>, <<50, 0>>>>, <<<<35, 64>>, <<50, 0>>>>, <<<<40, -64>>, <<55, -128>>>>,
     <<<<40, 0>>, <<55, 0>>>>, <<<<40, 64>>, <<55, 0>>>>, <<<<45, -64>>, <<60, 0>>>>,
     <<<<45, 0>>, <<60, 0>>>>, <<<<45, 64>>, <<60, 128>>>>, <<<<50, -192>>, <<65, -256>>>>,
     <<<<50, -64>>, <<65, -128>>>>, <<<<50, 0>>, <<65, 0>>>>, <<<<55, -256>>, <<70, -128>>>>,
     <<<<55, -128>>, <<70, 0>>>>, <<<<55, 0>>, <<70, 128>>>>, <<<<60, -128>>, <<75, -128>>>>,
     <<<<60, 0>>, <<75, 0>>>>, <<<<60, 128>>, <<75, 128>>>>, <<<<65, -256>>, <<80, -256>>>>,
     <<<<65, -128>>, <<80, -128>>>>, <<<<65, 0>>, <<80, 0>>>>, <<<<70, -128>>, <<85, -128>>>>,
     <<<<70, 0>>, <<85, 0>>>>, <<<<70, 128>>, <<85, 128>>>>, <<<<75, -256>>, <<90, -256>>>>,
     <<<<75, -128>>, <<90, -128>>>>, <<<<75, 0>>, <<90, 0>>>>, <<<<80, -256>>, <<95, -128>>>>,
     <<<<80, -128>>, <<95, 0>>>>, <<<<80, 0>>, <<95, 128>>>>, <<<<85, -128>>, <<100, -128>>>>,
     <<<<85, 0>>, <<100, 0>>>>, <<<<85, 128>>, <<100, 0>>>>, <<<<90, -128>>, <<105, -256>>>>,
     <<<<90, 0>>, <<105, 0>>>>, <<<<95, -128>>, <<110, -256>>>>, <<<<95, 0>>, <<110, -256>>>>,
     <<<<95, 128>>, <<110, 0>>>>, <<<<100, -128>>, <<115, 0>>>>, <<<<100, 0>>, <<115, 0>>>>}

FloatPlus015(x) == (CHOOSE p \in Plus015Table : p[1] = x)[2]

\* x - 0.05 in IEEE double arithmetic, for the floats the lifecycle reaches
Minus005Table ==
    {<<<<0, 0>>, <<-5, 0>>>>, <<<<0, 16>>, <<-5, 16>>>>, <<<<5, -16>>, <<0, -16>>>>,
     <<<<5, 0>>, <<0, 0>>>>, <<<<5, 16>>, <<0, 16>>>>, <<<<10, -16>>, <<5, -16>>>>,
     <<<<10, 0>>, <<5, 0>>>>, <<<<10, 16>>, <<5, 16>>>>, <<<<15, -32>>, <<10, -48>>>>,
     <<<<15, 0>>, <<10, -16>>>>, <<<<15, 32>>, <<10, 16>>>>, <<<<20, -32>>, <<15, -32>>>>,
     <<<<20, 0>>, <<15, 32>>>>, <<<<20, 64>>, <<15, 96>>>>, <<<<25, 0>>, <<20, 0>>>>,
     <<<<25, 64>>, <<20, 64>>>>, <<<<30, 0>>, <<25, 0>>>>, <<<<30, 64>>, <<25, 64>>>>,
     <<<<35, 0>>, <<30, 0>>>>, <<<<35, 64>>, <<30, 64>>>>, <<<<40, -64>>, <<35, 0>>>>,
     <<<<40, 0>>, <<35, 64>>>>, <<<<40, 64>>, <<35, 128>>>>, <<<<45, -64>>, <<40, -64>>>>,
     <<<<45, 0>>, <<40, 0>>>>, <<<<45, 64>>, <<40, 64>>>>, <<<<50, -192>>, <<45, -192>>>>,
     <<<<50, -64>>, <<45, -64>>>>, <<<<50, 0>>, <<45, 0>>>>, <<<<55, -256>>, <<50, -192>>>>,
     <<<<55, -128>>, <<50, -64>>>>, <<<<55, 0>>, <<50, 0>>>>, <<<<60, -128>>, <<55, -256>>>>,
     <<<<60, 0>>, <<55, -128>>>>, <<<<60, 128>>, <<55, 0>>>>, <<<<65, -256>>, <<60, -256>>>>,
     <<<<65, -128>>, <<60, -128>>>>, <<<<65, 0>>, <<60, 0>>>>, <<<<70, -128>>, <<65, -256>>>>,
     <<<<70, 0>>, <<65, -128>>>>, <<<<70, 128>>, <<65, 0>>>>, <<<<75, -256>>, <<70, -256>>>>,
     <<<<75, -128>>, <<70, -128>>>>, <<<<75, 0>>, <<70, 0>>>>, <<<<80, -256>>, <<75, -256>>>>,
     <<<<80, -128>>, <<75, -128>>>>, <<<<80, 0>>, <<75, 0>>>>, <<<<85, -128>>, <<80, -256>>>>,
     <<<<85, 0>>, <<80, -128>>>>, <<<<85, 128>>, <<80, 0>>>>, <<<<90, -128>>, <<85, -128>>>>,
     <<<<90, 0>>, <<85, 0>>>>, <<<<95, -128>>, <<90, -256>>>>, <<<<95, 0>>, <<90, -128>>>>,
     <<<<95, 128>>, <<90, 0>>>>, <<<<100, -128>>, <<95, -128>>>>, <<<<100, 0>>, <<95, 0>>>>}

FloatMinus005(x) == (CHOOSE p \in Minus005Table : p[1] = x)[2]

\* models.Memory as the store keeps it, with the fields the lifecycle touches
StoredMemory(id, stage, confidence, summary, detail, tags, occurrences, metadata) ==
    [id |-> id, entity_id |-> "e1", category |-> "coaching_thread", stage |-> stage,
     confidence |-> confidence, summary |-> summary, detail |-> detail, tags |-> tags,
     temporal |-> [first_observed |-> None, last_observed |-> None,
                   occurrences |-> occurrences],
     created_at |-> 0, updated_at |-> 0, metadata |-> metadata, superseded_by |-> None]

\* variant: a reinforce event counts the observation and adds no confidence
ReinforcedNoGain(memory, now) ==
    LET seen == [memory EXCEPT !.temporal.occurrences = @ + 1,
                               !.temporal.last_observed = now]
    IN  IF seen.stage = "draft" /\ ~FloatLess(seen.confidence, Float(40))
        THEN [seen EXCEPT !.stage = "reinforced"]
        ELSE IF seen.stage = "reinforced" /\ ~FloatLess(seen.confidence, Float(70))
        THEN [seen EXCEPT !.stage = "mature"]
        ELSE IF seen.stage = "decaying"
        THEN [seen EXCEPT !.stage = "reinforced",
                          !.confidence = FloatMax(Float(40), @)]
        ELSE seen

\* variant: the stage tests are separate ifs, so one event can move two stages
ReinforcedTwice(memory, now) ==
    LET seen == [memory EXCEPT !.temporal.occurrences = @ + 1,
                               !.temporal.last_observed = now,
                               !.confidence = FloatMin(Float(100), FloatPlus015(@))]
        first == IF seen.stage = "draft" /\ ~FloatLess(seen.confidence, Float(40))
                 THEN [seen EXCEPT !.stage = "reinforced"] ELSE seen
        second == IF first.stage = "reinforced" /\ ~FloatLess(first.confidence, Float(70))
                  THEN [first EXCEPT !.stage = "mature"] ELSE first
    IN  IF second.stage = "decaying"
        THEN [second EXCEPT !.stage = "reinforced",
                            !.confidence = FloatMax(Float(40), @)]
        ELSE second

\* variant: the last test is a plain else, every remaining stage is reinforced
ReinforcedElse(memory, now) ==
    LET seen == [memory EXCEPT !.temporal.occurrences = @ + 1,
                               !.temporal.last_observed = now,
                               !.confidence = FloatMin(Float(100), FloatPlus015(@))]
    IN  IF seen.stage = "draft" /\ ~FloatLess(seen.confidence, Float(40))
        THEN [seen EXCEPT !.stage = "reinforced"]
        ELSE IF seen.stage = "reinforced" /\ ~FloatLess(seen.confidence, Float(70))
        THEN [seen EXCEPT !.stage = "mature"]
        ELSE IF seen.stage \notin {"draft", "reinforced", "mature"}
        THEN [seen EXCEPT !.stage = "reinforced",
                          !.confidence = FloatMax(Float(40), @)]
        ELSE seen

\* the branch `if reinforced:` of advance_memory_lifecycle
Reinforced(memory, now) ==
    LET seen == [memory EXCEPT !.temporal.occurrences = @ + 1,
                               !.temporal.last_observed = now,
                               !.confidence = FloatMin(Float(100), FloatPlus015(@))]
    IN  IF seen.stage = "draft" /\ ~FloatLess(seen.confidence, Float(40))
        THEN [seen EXCEPT !.stage = "reinforced"]
        ELSE IF seen.stage = "reinforced" /\ ~FloatLess(seen.confidence, Float(70))
        THEN [seen EXCEPT !.stage = "mature"]
        ELSE IF seen.stage = "decaying"
        THEN [seen EXCEPT !.stage = "reinforced",
                          !.confidence = FloatMax(Float(40), @)]
        ELSE seen

\* variant: a low confidence sends a memory of any stage to decaying
DecayedAnyStage(memory) ==
    LET faded == [memory EXCEPT !.confidence = FloatMax(Float(0), FloatMinus005(@))]
    IN  IF FloatLess(faded.confidence, Float(30))
        THEN [faded EXCEPT !.stage = "decaying"] ELSE faded

\* the branch `else:` of advance_memory_lifecycle
Decayed(memory) ==
    LET faded == [memory EXCEPT !.confidence = FloatMax(Float(0), FloatMinus005(@))]
    IN  IF FloatLess(faded.confidence, Float(30)) /\ faded.stage = "mature"
        THEN [faded EXCEPT !.stage = "decaying"] ELSE faded

\* the memory is changed in place and returned
advance_memory_lifecycle(memory, reinforced, now) ==
    [(IF reinforced THEN Reinforced(memory, now) ELSE Decayed(memory))
        EXCEPT !.updated_at = now]

\* returns <<old, revised>>; old is changed in place
revise_memory(old, new_summary, new_detail, now) ==
    LET revised ==
            [StoredMemory(None, "draft", Float(30), new_summary,
                          IF new_detail # "" THEN new_detail
                          ELSE "Previously: " \o old.summary,
                          old.tags, 1,
                          [k \in DOMAIN old.metadata \cup {"revised_from"} |->
                              IF k = "revised_from" THEN old.id ELSE old.metadata[k]])
                EXCEPT !.entity_id = old.entity_id, !.category = old.category,
                       !.temporal.first_observed = now, !.temporal.last_observed = now,
                       !.created_at = now, !.updated_at = now]
    IN  <<[old EXCEPT !.stage = "archived", !.updated_at = now,
                      !.superseded_by = revised.id],
          revised>>

-----------------------------------------------------------------------------
(* Temporal analysis: compute_temporal *)

\* The value of an observation, and every float computed from it, is an IEEE
\* double written <<c, q>>: the number c * 2^46 + q / 64. With c = 0 it is a
\* small dyadic number, held exactly; with c # 0 it lies in the binade of
\* |c| * 2^46, where doubles are 2^e sixty-fourths apart, e = floor(log2 |c|).
\* The coarse parts used here are multiples of 20, and q stays far below 2^46.
Value(c, q) == <<c, q>>

Abs(n) == IF n < 0 THEN -n ELSE n

RECURSIVE Log2(_)
Log2(n) == IF n < 2 THEN 0 ELSE 1 + Log2(n \div 2)

\* The spacing, in sixty-fourths, of the doubles around c * 2^46 + q / 64
\* (c # 0): just below a power of two the spacing is halved.
Ulp(c, q) ==
    LET a == Abs(c)
        e == Log2(a)
        p == IF c < 0 THEN -q ELSE q
    IN  IF a = 2^e /\ p < 0 THEN 2^(e - 1) ELSE 2^e

\* n / d rounded to the nearest integer, ties to the even one (d > 0).
RoundHalfEven(n, d) ==
    LET k == n \div d
        r == n - k * d
    IN  IF 2 * r < d THEN k
        ELSE IF 2 * r > d THEN k + 1
        ELSE IF k % 2 = 0 THEN k ELSE k + 1

\* The double nearest to the real number c * 2^46 + (n / d) / 64: what one
\* float operation returns for that exact result. With c = 0 the quotient is
\* exact for the values used (d divides n).
Rounded(c, n, d) ==
    IF c = 0 THEN <<0, n \div d>>
    ELSE LET u == Ulp(c, n) IN <<c, RoundHalfEven(n, d * u) * u>>

\* x + y, x - y and x / n on floats (n a positive int dividing x's coarse part)
FAdd(x, y) == Rounded(x[1] + y[1], x[2] + y[2], 1)

FSub(x, y) == Rounded(x[1] - y[1], x[2] - y[2], 1)

FDiv(x, n) == Rounded(x[1] \div n, x[2], n)

FAbs(x) == IF x[1] < 0 \/ (x[1] = 0 /\ x[2] < 0) THEN <<-x[1], -x[2]>> ELSE x

\* abs(x) >= abs(y)
FAbsGe(x, y) ==
    LET a == FAbs(x)
        b == FAbs(y)
    IN  a[1] > b[1] \/ (a[1] = b[1] /\ a[2] >= b[2])

\* abs(x) < 0.5 (0.5 is 32 sixty-fourths)
FAbsLessHalf(x) == x[1] = 0 /\ Abs(x[2]) < 32

\* x > 0
FPositive(x) == x[1] > 0 \/ (x[1] = 0 /\ x[2] > 0)

\* truthiness of a float: x is not zero
FTruthy(x) == x # Value(0, 0)

\* sum() as a left-to-right float addition (CPython up to 3.11)
RECURSIVE SumNaive(_, _)
SumNaive(acc, vals) ==
    IF Len(vals) = 0 THEN acc ELSE SumNaive(FAdd(acc, vals[1]), Tail(vals))

\* sum() with Neumaier compensation (CPython from 3.12 on)
RECURSIVE SumCompensated(_, _, _)
SumCompensated(s, comp, vals) ==
    IF Len(vals) = 0 THEN FAdd(s, comp)
    ELSE LET x == vals[1]
             t == FAdd(s, x)
             lost == IF FAbsGe(s, x) THEN FAdd(FSub(s, t), x)
                     ELSE FAdd(FSub(x, t), s)
         IN  SumCompensated(t, FAdd(comp, lost), Tail(vals))

\* sum(vals); which summation the interpreter uses is a property of the
\* build, so it is a parameter here.
sum(vals, compensated) ==
    IF compensated THEN SumCompensated(Value(0, 0), Value(0, 0), vals)
    ELSE SumNaive(Value(0, 0), vals)

\* sum(vals) / len(vals) if vals else 0
Average(vals, compensated) ==
    IF Len(vals) = 0 THEN Value(0, 0) ELSE FDiv(sum(vals, compensated), Len(vals))

TemporalMetadata(first_observed, last_observed, occurrences, trend, current, previous, baseline, delta, velocity) ==
    [first_observed |-> first_observed, last_observed |-> last_observed,
     occurrences |-> occurrences, trend |-> trend, current |-> current,
     previous |-> previous, baseline |-> baseline, delta |-> delta,
     velocity |-> velocity]

\* TemporalMetadata()
TemporalMetadataDefault ==
    TemporalMetadata(None, None, 0, "stable", Value(0, 0), Value(0, 0),
                     Value(0, 0), Value(0, 0), Value(0, 0))

\* An observation is <<dt, v>>: the day it was made and its value.
\* list.sort(key=lambda x: x[0]) is stable: ties keep the order they had.
RECURSIVE InsertByTime(_, _)
InsertByTime(sorted, x) ==
    IF Len(sorted) = 0 THEN <<x>>
    ELSE IF sorted[Len(sorted)][1] <= x[1] THEN Append(sorted, x)
    ELSE Append(InsertByTime(SubSeq(sorted, 1, Len(sorted) - 1), x),
                sorted[Len(sorted)])

RECURSIVE SortByTime(_)
SortByTime(values) ==
    IF Len(values) = 0 THEN <<>>
    ELSE InsertByTime(SortByTime(SubSeq(values, 1, Len(values) - 1)),
                      values[Len(values)])

\* [v for dt, v in values if lo < (now - dt).days <= hi]
RECURSIVE WindowVals(_, _, _, _)
WindowVals(values, now, lo, hi) ==
    IF Len(values) = 0 THEN <<>>
    ELSE LET days == now - values[1][1]
             rest == WindowVals(Tail(values), now, lo, hi)
         IN  IF lo < days /\ days <= hi THEN <<values[1][2]>> \o rest ELSE rest

\* [v for dt, v in values if (now - dt).days <= window_current]
RECURSIVE CurrentVals(_, _, _)
CurrentVals(values, now, window_current) ==
    IF Len(values) = 0 THEN <<>>
    ELSE LET rest == CurrentVals(Tail(values), now, window_current)
         IN  IF now - values[1][1] <= window_current
             THEN <<values[1][2]>> \o rest ELSE rest

TrendOfDelta(n_current, delta) ==
    IF FAbsLessHalf(delta) THEN "stable"
    ELSE IF FPositive(delta) THEN "improving"
    ELSE "declining"

\* The if/elif chain that classifies the trend
TrendOf(n_current, delta) ==
    IF n_current < 2 THEN "stable"
    ELSE IF FAbsLessHalf(delta) THEN "stable"
    ELSE IF FPositive(delta) THEN "improving"
    ELSE "declining"

\* compute_temporal(values, window_current, window_previous, window_baseline),
\* read at time now: the metadata returned, and the caller's list as the call
\* leaves it (values.sort sorts that list in place).
compute_temporal(values, window_current, window_previous, window_baseline, now, compensated) ==
    IF Len(values) = 0
    THEN [values |-> values, result |-> TemporalMetadataDefault]
    ELSE LET sorted == SortByTime(values)
             current_vals == CurrentVals(sorted, now, window_current)
             previous_vals == WindowVals(sorted, now, window_current, window_previous)
             baseline_vals == WindowVals(sorted, now, window_previous, window_baseline)
             current_avg == Average(current_vals, compensated)
             previous_avg == Average(previous_vals, compensated)
             baseline_avg == Average(baseline_vals, compensated)
             delta == FSub(current_avg, previous_avg)
             trend == TrendOf(Len(current_vals), delta)
             velocity == IF FTruthy(previous_avg) /\ FTruthy(baseline_avg)
                         THEN FSub(delta, FSub(previous_avg, baseline_avg))
                         ELSE Value(0, 0)
         IN  [values |-> sorted,
              result |-> TemporalMetadata(sorted[1][1], sorted[Len(sorted)][1],
                                          Len(sorted), trend, current_avg,
                                          previous_avg, baseline_avg, delta,
                                          velocity)]

-----------------------------------------------------------------------------
(* The engines built and the arguments passed *)

Goal(name, description, status, priority_adjustments, progress) ==
    [name |-> name, description |-> description, status |-> status,
     priority_adjustments |-> priority_adjustments, progress |-> progress]

Memory(id, category, stage, confidence, summary, detail) ==
    [id |-> id, category |-> category, stage |-> stage, confidence |-> confidence,
     summary |-> summary, detail |-> detail]

\* b and c tie at priority 60; a is rendered as "Value: ..."
DefsTie ==
    <<RuntimeBlockDef("a", Tier.always, <<>>, "context", None, "value", NoCallable),
      RuntimeBlockDef("b", Tier.conditional, <<>>, "aux", None, None, NoCallable),
      RuntimeBlockDef("c", Tier.strong_signal, <<60>>, "context", None, None, NoCallable)>>

\* b is gated on the flag "boost"; c overrides its priority beyond 100
DefsGate ==
    <<RuntimeBlockDef("a", Tier.always, <<>>, "context", None, None, NoCallable),
      RuntimeBlockDef("b", Tier.conditional, <<>>, "aux", None, None, HasFlag("boost")),
      RuntimeBlockDef("c", Tier.conditional, <<150>>, "", None, None, NoCallable)>>

RulesBoost ==
    <<ScoringRule("boost_b", HasFlag("boost"), ("b" :> 25) @@ ("c" :> 0))>>

RulesMixed ==
    <<ScoringRule("boost_b", HasFlag("boost"), ("b" :> 25) @@ ("c" :> 0) @@ ("memory:m1" :> 15)),
      ScoringRule("calm", NotFlag("boost"), ("a" :> -95) @@ ("b" :> 50) @@ ("c" :> -70))>>

ModesCustom ==
    ("default" :> ModeConfig("default", 3, <<>>))
    @@ ("tight" :> ModeConfig("tight", 1, <<"c", "b", "zz">>))

\* The engines built: small and large budgets, a negative default budget,
\* with and without configured modes, gates, rules and a narrating analyzer.
Engines ==
    {ContextAssemblyEngine("test", DefsTie, RulesBoost, None, <<>>, 2),
     ContextAssemblyEngine("test", DefsTie, RulesMixed, None, ModesCustom, -1),
     ContextAssemblyEngine("test", DefsGate, RulesMixed, "narrated", <<>>, 12),
     ContextAssemblyEngine("test", DefsGate, RulesBoost, None, ModesCustom, 2)}

DataSets ==
    {("a" :> va) @@ ("b" :> vb) @@ ("c" :> vc) @@ ("boost" :> vf) :
        va \in {"x", Repeat("x", MaxChars)}, vb \in {None, "y"},
        vc \in {None, ""}, vf \in {None, "1"}}

GoalPool ==
    {Goal("focus", "Short game", "active", ("a" :> -95) @@ ("b" :> 25) @@ ("c" :> 0), 50),
     Goal("lift", "", "active", ("b" :> 50) @@ ("c" :> 10) @@ ("memory:m1" :> -30), 0),
     Goal("rest", "", "paused", ("b" :> 50), 0)}

RECURSIVE SeqsUpTo(_, _)
SeqsUpTo(S, n) ==
    IF n = 0 THEN {<<>>}
    ELSE LET shorter == SeqsUpTo(S, n - 1)
         IN  shorter \cup {Append(q, x) : q \in shorter, x \in S}

GoalLists ==
    SeqsUpTo(GoalPool, MaxGoals)
    \cup {<<Goal("rest", "", st, ("b" :> 50), 0)>> : st \in GoalStatus}

MemoryPool ==
    {Memory("m1", "coaching_thread", "mature", 20, "Rushes putts", "")}

MemoryLists == SeqsUpTo(MemoryPool, MaxMemories)

Inputs ==
    [entity_id : {"e1"}, data : DataSets, mode : {"default", "tight", "other"},
     goals : GoalLists, memories : MemoryLists]

\* memories of every stage and category, with and without an id and a detail
StoredPool ==
    {Memory("m1", "coaching_thread", "mature", 20, "Rushes putts", ""),
     Memory("m2", "behavioral_pattern", "archived", 16, "Old habit", ""),
     Memory(None, "emotional_signature", "draft", 4, "Tilts", "After bogeys"),
     Memory("m4", "coaching_thread", "decaying", 5, "Grip", ""),
     Memory("", "domain_knowledge", "reinforced", 9, "Wind", ""),
     Memory("m6", "breakthrough_moment", "revised", 0, "Calm", "")}

\* engines whose rules name a memory block's key, with room for one or for
\* several memory blocks
EnginesMem ==
    {ContextAssemblyEngine("test", DefsGate, RulesMixed, "narrated", <<>>, 12),
     ContextAssemblyEngine("test", DefsTie, RulesMixed, None, <<>>, 40)}

InputsMem ==
    [entity_id : {"e1"},
     data : {("a" :> "x") @@ ("b" :> "y") @@ ("c" :> None) @@ ("boost" :> vf) :
                vf \in {None, "1"}},
     mode : {"default"},
     goals : {<<>>, <<Goal("lift", "", "active",
                          ("b" :> 50) @@ ("c" :> 10) @@ ("memory:m1" :> -30), 0)>>},
     memories : SeqsUpTo(StoredPool, MaxStored)]

\* modes whose "default" restricts the active blocks
ModesNarrow ==
    ("default" :> ModeConfig("default", 3, <<"b", "a">>))
    @@ ("tight" :> ModeConfig("tight", 1, <<"c">>))

\* engines called again and again with changing arguments: with and without
\* configured modes, one with an analyzer that keeps its Situation
EnginesCalls ==
    {ContextAssemblyEngine("test", DefsTie, RulesBoost, "cached", ModesNarrow, 2),
     ContextAssemblyEngine("test", DefsTie, RulesBoost, None, ModesNarrow, 5),
     ContextAssemblyEngine("test", DefsGate, RulesBoost, None, <<>>, 2)}

InputsCalls ==
    [entity_id : {"e1", "e2"},
     data : {("a" :> "x") @@ ("b" :> vb) @@ ("c" :> "z") @@ ("boost" :> None) :
                vb \in {None, "y"}},
     mode : {"default", "tight", "other"},
     goals : {<<>>},
     memories : {<<>>}]

\* the memories the store hands to the lifecycle: every stage, every
\* confidence of the 0.05 grid, with and without an id
StoredMemories ==
    {StoredMemory(id, stage, Float(5 * k), "Rushes putts", "", <<"putting">>, 2,
                  ("source" :> "coach")) :
        id \in {"m1", None}, stage \in MemoryStage, k \in 0..20}

-----------------------------------------------------------------------------
(* The state machine *)

Init ==
    /\ engine \in Engines
    /\ args \in Inputs
    /\ clock = 0
    /\ run = <<>>
    /\ returned = <<>>
    /\ life = <<>>
    /\ temporal = <<>>
    /\ declared = <<>>

\* What the caller holds of an earlier call once a later call returned ret.
\* assemble() assigns entity_id and mode on the Situation the analyzer handed
\* out and stores that object in the Manifest: when the analyzer hands out the
\* same object every time, the earlier manifest's situation is that object.
Held(earlier, ret) ==
    IF engine.analyze_situation = "cached"
    THEN [earlier EXCEPT !.manifest.situation = ret.manifest.situation]
    ELSE earlier

\* engine.assemble(entity_id, data, mode, goals, memories)
Assemble ==
    \E r \in {assemble(engine, args, clock)} :
    LET ret == [text |-> r.text, manifest |-> r.manifest]
    IN  /\ run' = [f \in DOMAIN r \ {"text", "manifest"} |-> r[f]]
        /\ returned' = IF Len(returned) = 0 THEN <<ret>>
                       ELSE <<Held(returned[Len(returned)], ret), ret>>
        /\ UNCHANGED <<engine, args, clock, life, temporal, declared>>

\* time passes
Tick ==
    /\ clock < MaxClock
    /\ clock' = clock + 1
    /\ UNCHANGED <<engine, args, run, returned, life, temporal, declared>>

Next == Assemble \/ Tick

Spec == Init /\ [][Next]_vars

\* the same calls, made with memories of every stage
InitMem ==
    /\ engine \in EnginesMem
    /\ args \in InputsMem
    /\ clock = 0
    /\ run = <<>>
    /\ returned = <<>>
    /\ life = <<>>
    /\ temporal = <<>>
    /\ declared = <<>>

SpecMem == InitMem /\ [][Next]_vars

\* Configurations and arguments in which keys can meet: a mode that lists a
\* key twice, a block definition keyed like a memory block, and memories that
\* are different records with the same id, or with no id and the same summary.
ModesRepeat ==
    ("default" :> ModeConfig("default", 12, <<"a", "b", "a">>))
    @@ ("tight" :> ModeConfig("tight", 4, <<"c">>))

DefsMemKey ==
    <<RuntimeBlockDef("a", Tier.always, <<>>, "context", None, None, NoCallable),
      RuntimeBlockDef("memory:m1", Tier.conditional, <<>>, "aux", "b", None, NoCallable)>>

EnginesKeys ==
    {ContextAssemblyEngine("test", DefsTie, RulesBoost, None, ModesRepeat, 12),
     ContextAssemblyEngine("test", DefsMemKey, RulesBoost, None, <<>>, 40)}

KeyedPool ==
    {Memory("m1", "coaching_thread", "mature", 20, "Rushes putts", ""),
     Memory("m1", "domain_knowledge", "draft", 4, "Wind", "Into the wind"),
     Memory(None, "coaching_thread", "reinforced", 9, "Grip", ""),
     Memory(None, "coaching_thread", "decaying", 5, "Grip", "Loosens late")}

InputsKeys ==
    [entity_id : {"e1"},
     data : {("a" :> "x") @@ ("b" :> vb) @@ ("c" :> "z") : vb \in {None, "y"}},
     mode : {"default", "tight"},
     goals : {<<>>},
     memories : SeqsUpTo(KeyedPool, MaxStored)]

InitKeys ==
    /\ engine \in EnginesKeys
    /\ args \in InputsKeys
    /\ clock = 0
    /\ run = <<>>
    /\ returned = <<>>
    /\ life = <<>>
    /\ temporal = <<>>
    /\ declared = <<>>

SpecKeys == InitKeys /\ [][Next]_vars

\* Engines in which several rules fire together and name the same keys
RulesChain ==
    <<ScoringRule("first", HasFlag("boost"), ("b" :> 25) @@ ("c" :> -70)),
      ScoringRule("calm", NotFlag("boost"), ("b" :> 50) @@ ("a" :> -95)),
      ScoringRule("second", HasFlag("boost"), ("b" :> -40) @@ ("a" :> 5) @@ ("c" :> 0))>>

EnginesOrder ==
    {ContextAssemblyEngine("test", DefsTie, RulesChain, None, <<>>, 5),
     ContextAssemblyEngine("test", DefsGate, RulesChain, "narrated", <<>>, 12)}

InputsOrder ==
    [entity_id : {"e1"},
     data : {("a" :> "x") @@ ("b" :> "y") @@ ("c" :> vc) @@ ("boost" :> vf) :
                vc \in {None, ""}, vf \in {None, "1"}},
     mode : {"default"},
     goals : GoalLists,
     memories : MemoryLists]

InitOrder ==
    /\ engine \in EnginesOrder
    /\ args \in InputsOrder
    /\ clock = 0
    /\ run = <<>>
    /\ returned = <<>>
    /\ life = <<>>
    /\ temporal = <<>>
    /\ declared = <<>>

SpecOrder == InitOrder /\ [][Next]_vars

\* the caller makes up the arguments of its next call
Request ==
    /\ args' \in InputsCalls \ {args}
    /\ UNCHANGED <<engine, clock, run, returned, life, temporal, declared>>

InitCalls ==
    /\ engine \in EnginesCalls
    /\ args \in InputsCalls
    /\ clock = 0
    /\ run = <<>>
    /\ returned = <<>>
    /\ life = <<>>
    /\ temporal = <<>>
    /\ declared = <<>>

NextCalls == Assemble \/ Tick \/ Request

SpecCalls == InitCalls /\ [][NextCalls]_vars

\* A stored memory goes through lifecycle events. life.origin is the memory as
\* the store handed it out, life.before the memory before the latest event,
\* life.trail the events so far, life.revised what revise_memory created.
InitLife ==
    /\ engine = <<>>
    /\ args = <<>>
    /\ clock = 0
    /\ run = <<>>
    /\ returned = <<>>
    /\ temporal = <<>>
    /\ declared = <<>>
    /\ \E mem \in StoredMemories :
          life = [origin |-> mem, memory |-> mem, before |-> mem, trail |-> <<>>,
                  revised |-> <<>>]

\* advance_memory_lifecycle(memory, reinforced=True)
Reinforce ==
    /\ Len(life.trail) < MaxEvents
    /\ life' = [life EXCEPT !.before = life.memory,
                            !.memory = advance_memory_lifecycle(life.memory, TRUE, clock),
                            !.trail = Append(@, "reinforce")]
    /\ UNCHANGED <<engine, args, clock, run, returned, temporal, declared>>

\* advance_memory_lifecycle(memory)
Decay ==
    /\ Len(life.trail) < MaxEvents
    /\ life' = [life EXCEPT !.before = life.memory,
                            !.memory = advance_memory_lifecycle(life.memory, FALSE, clock),
                            !.trail = Append(@, "decay")]
    /\ UNCHANGED <<engine, args, clock, run, returned, temporal, declared>>

\* revise_memory(memory, new_summary, new_detail)
Revise ==
    /\ Len(life.trail) < MaxEvents
    /\ life.revised = <<>>
    /\ \E new_detail \in {"", "Now calmer"} :
          LET pair == revise_memory(life.memory, "Takes time", new_detail, clock)
          IN  life' = [life EXCEPT !.before = life.memory,
                                   !.memory = pair[1],
                                   !.revised = <<pair[2], new_detail>>,
                                   !.trail = Append(@, "revise")]
    /\ UNCHANGED <<engine, args, clock, run, returned, temporal, declared>>

NextLife == Reinforce \/ Decay \/ Revise \/ Tick

SpecLife == InitLife /\ [][NextLife]_vars

\* A memory that is observed again and again: every event is a reinforce
\* event. The caller keeps reinforcing, so the event is weakly fair.
InitRun ==
    /\ engine = <<>>
    /\ args = <<>>
    /\ clock = 0
    /\ run = <<>>
    /\ returned = <<>>
    /\ temporal = <<>>
    /\ declared = <<>>
    /\ \E mem \in StoredMemories :
          /\ mem.stage \in {"draft", "reinforced", "decaying", "mature"}
          /\ life = [origin |-> mem, memory |-> mem, before |-> mem, trail |-> <<>>,
                     revised |-> <<>>]

\* advance_memory_lifecycle(memory, reinforced=True), once more
ReinforceAgain ==
    /\ Len(life.trail) < MaxRun
    /\ life' = [life EXCEPT !.before = life.memory,
                            !.memory = advance_memory_lifecycle(life.memory, TRUE, clock),
                            !.trail = Append(@, "reinforce")]
    /\ UNCHANGED <<engine, args, clock, run, returned, temporal, declared>>

NextRun == ReinforceAgain

SpecRun == InitRun /\ [][NextRun]_vars

FairRun == SpecRun /\ WF_vars(ReinforceAgain)

\* Observations handed to compute_temporal: a day stamp and a value. The
\* values are 0.9375, 1.875 and 240 * 2^46 (doubles are 2.0 apart there).
ObservedValues == {Value(0, 60), Value(0, 120), Value(240, 0)}

Observations == (0..MaxDay) \X ObservedValues

\* The window arguments of the calls, in days
Windows == [current |-> 1, previous |-> 2, baseline |-> 3]

\* A caller keeps a list of observations and asks for its temporal metadata.
\* temporal.values is the caller's list, temporal.before that list as it was
\* when compute_temporal was last called, temporal.result what the call
\* returned, temporal.now the time the call read, temporal.compensated the
\* summation of the interpreter the program runs on.
InitTemporal ==
    /\ engine = <<>>
    /\ args = <<>>
    /\ clock = 0
    /\ run = <<>>
    /\ returned = <<>>
    /\ life = <<>>
    /\ declared = <<>>
    /\ \E compensated \in BOOLEAN :
          temporal = [values |-> <<>>, before |-> <<>>,
                      result |-> TemporalMetadataDefault, now |-> MaxDay,
                      event |-> "", compensated |-> compensated]

\* values.append((dt, v))
Observe ==
    /\ Len(temporal.values) < MaxObs
    /\ \E obs \in Observations :
          temporal' = [temporal EXCEPT !.values = Append(@, obs),
                                       !.event = "observe"]
    /\ UNCHANGED <<engine, args, clock, run, returned, life, declared>>

\* compute_temporal(values, window_current, window_previous, window_baseline)
Compute ==
    /\ LET now == MaxDay + clock
           call == compute_temporal(temporal.values, Windows.current,
                                    Windows.previous, Windows.baseline, now,
                                    temporal.compensated)
       IN  temporal' = [temporal EXCEPT !.before = temporal.values,
                                        !.values = call.values,
                                        !.result = call.result,
                                        !.now = now,
                                        !.event = "compute"]
    /\ UNCHANGED <<engine, args, clock, run, returned, life, declared>>

NextTemporal == Observe \/ Compute \/ Tick

SpecTemporal == InitTemporal /\ [][NextTemporal]_vars

\* A configuration is written one block definition at a time, each both as
\* the serializable BlockDef and as the RuntimeBlockDef the engine is given,
\* from the same key, tier and base-priority override.
Overrides == {<<>>, <<-5>>, <<0>>, <<1>>, <<45>>, <<100>>, <<150>>}

InitDefs ==
    /\ engine = <<>>
    /\ args = <<>>
    /\ clock = 0
    /\ run = <<>>
    /\ returned = <<>>
    /\ life = <<>>
    /\ temporal = <<>>
    /\ declared = <<>>

\* BlockDef(key=..., tier=..., base_priority=...) and
\* RuntimeBlockDef(key=..., tier=..., base_priority=...)
Declare ==
    /\ Len(declared) < MaxDefs
    /\ \E tier \in {Tier.always, Tier.conditional, Tier.strong_signal} :
       \E base_priority \in Overrides :
          declared' = Append(declared,
              [tier |-> tier,
               override |-> base_priority,
               serial |-> BlockDef("k", tier, base_priority, "context", ""),
               runtime |-> RuntimeBlockDef("k", tier, base_priority, "context",
                                           None, None, NoCallable)])
    /\ UNCHANGED <<engine, args, clock, run, returned, life, temporal>>

NextDefs == Declare

SpecDefs == InitDefs /\ [][NextDefs]_vars

-----------------------------------------------------------------------------
(* What a returned manifest is compared with *)

Done == Len(returned) > 0

Last == returned[Len(returned)]

M == Last.manifest

IncludedEntries(m) == SelectSeq(m.entries, LAMBDA e : e.included)

ExcludedEntries(m) == SelectSeq(m.entries, LAMBDA e : ~e.included)

RECURSIVE TokenSum(_)
TokenSum(es) == IF Len(es) = 0 THEN 0 ELSE es[1].estimated_tokens + TokenSum(Tail(es))

CountIn(x, q) == Cardinality({i \in 1..Len(q) : q[i] = x})

GateReason == "should_include gate: False"

\* an entry built from a block definition (not a memory block)
IsRegular(e) == \E i \in 1..Len(engine.block_defs) : engine.block_defs[i].key = e.key

\* the keys active in the latest call, in the order they are built
ActiveKeys ==
    IF Len(run.mode_config.block_keys) > 0 THEN run.mode_config.block_keys
    ELSE [i \in 1..Len(engine.block_defs) |-> engine.block_defs[i].key]

\* the block definitions active in the latest call
ActiveDefs ==
    {engine.block_defs[i] : i \in {j \in 1..Len(engine.block_defs) :
        \E k \in 1..Len(ActiveKeys) : ActiveKeys[k] = engine.block_defs[j].key}}

RECURSIVE GoalSum(_, _)
GoalSum(goals, key) ==
    IF Len(goals) = 0 THEN 0
    ELSE (IF goals[1].status = "active" THEN Get(goals[1].priority_adjustments, key, 0) ELSE 0)
         + GoalSum(Tail(goals), key)

RECURSIVE RuleSum(_, _, _)
RuleSum(rules, sit, key) ==
    IF Len(rules) = 0 THEN 0
    ELSE (IF RuleCondition(rules[1].condition, sit) THEN Get(rules[1].adjustments, key, 0) ELSE 0)
         + RuleSum(Tail(rules), sit, key)

\* the priority of a regular entry before clamping
RawPriority(e) ==
    (IF e.exclude_reason = GateReason THEN 0 ELSE e.base_priority)
    + GoalSum(args.goals, e.key) + RuleSum(engine.scoring_rules, M.situation, e.key)

\* the deltas that reach an entry: a memory block is built after the adjustments
GoalPart(e) == IF IsRegular(e) THEN GoalSum(args.goals, e.key) ELSE 0

RulePart(e) == IF IsRegular(e) THEN RuleSum(engine.scoring_rules, M.situation, e.key) ELSE 0

StartPriority(e) == IF e.exclude_reason = GateReason THEN 0 ELSE e.base_priority

RuleSignal(rule, key) == "rule:" \o rule.name \o ":" \o SignedStr(rule.adjustments[key])

GoalSignal(goal, key) == "goal:" \o goal.name \o ":" \o SignedStr(goal.priority_adjustments[key])

Entries == {M.entries[i] : i \in 1..Len(M.entries)}

-----------------------------------------------------------------------------
(* C1 *)

\* C1 as stated: for every call and every configured budget, the estimated
\* tokens of the included blocks sum to at most manifest.budget.total_tokens.
C1_IncludedWithinAnyBudget ==
    Done => TokenSum(IncludedEntries(M)) <= M.budget.total_tokens

\* C1 amended: whenever the budget is not negative, the estimated tokens of the
\* included blocks sum to at most manifest.budget.total_tokens.
C1_IncludedWithinBudget ==
    (Done /\ M.budget.total_tokens >= 0)
        => TokenSum(IncludedEntries(M)) <= M.budget.total_tokens

C1_Witness ==
    /\ Done
    /\ M.budget.total_tokens >= 0
    /\ \E e \in Entries : e.included
    /\ \E e \in Entries : ~e.included /\ e.exclude_reason = BudgetReason(0)

(* C2 *)

\* C2: the manifest's accounting is consistent: used_tokens is the sum over the
\* included entries, used + remaining = total, the entries flagged included and
\* excluded are counted by blocks_included and blocks_excluded, and these add up
\* to total_blocks_considered.
C2_Accounting ==
    Done =>
        LET b == M.budget
        IN  /\ b.used_tokens = TokenSum(IncludedEntries(M))
            /\ b.used_tokens + b.remaining_tokens = b.total_tokens
            /\ Len(IncludedEntries(M)) = b.blocks_included
            /\ Len(ExcludedEntries(M)) = b.blocks_excluded
            /\ b.blocks_included + b.blocks_excluded = M.total_blocks_considered

C2_Witness ==
    /\ Done
    /\ M.budget.blocks_included >= 2
    /\ M.budget.blocks_excluded >= 2
    /\ M.budget.remaining_tokens > 0

(* C3 *)

Untimed(r) ==
    [r EXCEPT !.manifest.timestamp = 0, !.manifest.situation.timestamp = 0]

ScoreIdx == {i \in 1..Len(run.blocks) : run.blocks[i].exclude_reason = None}

Before(i, j) ==
    \/ run.blocks[i].priority > run.blocks[j].priority
    \/ run.blocks[i].priority = run.blocks[j].priority /\ i < j

Turn(i) == 1 + Cardinality({j \in ScoreIdx : Before(j, i)})

AtTurn(k) == CHOOSE i \in ScoreIdx : Turn(i) = k

RECURSIVE RefRemaining(_)
RefRemaining(k) ==
    IF k = 1 THEN M.budget.total_tokens
    ELSE LET prev == RefRemaining(k - 1)
             cost == run.blocks[AtTurn(k - 1)].estimated_tokens
         IN  IF cost <= prev THEN prev - cost ELSE prev

Turns == [k \in 1..Cardinality(ScoreIdx) |-> k]

FitsAt(k) == run.blocks[AtTurn(k)].estimated_tokens <= RefRemaining(k)

\* what the manifest says of a block, and what the reference says of candidate i
Outcome(key, tokens, is_included, reason) ==
    [key |-> key, estimated_tokens |-> tokens, included |-> is_included,
     exclude_reason |-> reason]

RefIncluded ==
    LET turns == SelectSeq(Turns, FitsAt)
    IN  [n \in 1..Len(turns) |->
            LET b == run.blocks[AtTurn(turns[n])]
            IN  Outcome(b.key, b.estimated_tokens, TRUE, None)]

RefExcluded ==
    LET prior == SelectSeq(run.blocks, LAMBDA b : b.exclude_reason # None)
        turns == SelectSeq(Turns, LAMBDA k : ~FitsAt(k))
    IN  [n \in 1..Len(prior) |->
            Outcome(prior[n].key, prior[n].estimated_tokens, FALSE, prior[n].exclude_reason)]
        \o [n \in 1..Len(turns) |->
            LET b == run.blocks[AtTurn(turns[n])]
            IN  Outcome(b.key, b.estimated_tokens, FALSE, BudgetReason(RefRemaining(turns[n])))]

\* C5: budget selection is the reference greedy: a candidate is included iff
\* its estimated_tokens <= the budget remaining at its turn (an exact fit is
\* included); otherwise it is excluded with 'budget: <remaining> tokens
\* remaining' and the scan goes on to the candidates after it.
C5_ReferenceGreedy ==
    Done =>
        [n \in 1..Len(M.entries) |->
            Outcome(M.entries[n].key, M.entries[n].estimated_tokens,
                    M.entries[n].included, M.entries[n].exclude_reason)]
        = RefIncluded \o RefExcluded

\* a candidate is refused, a later one of lower priority is included, and
\* some candidate fits exactly
C5_Witness ==
    /\ Done
    /\ \E i, j \in ScoreIdx :
          /\ run.blocks[i].priority > run.blocks[j].priority
          /\ run.blocks[i].estimated_tokens > RefRemaining(Turn(i))
          /\ run.blocks[j].estimated_tokens <= RefRemaining(Turn(j))
    /\ \E i \in ScoreIdx :
          run.blocks[i].estimated_tokens = RefRemaining(Turn(i))

(* C6 *)

DefIndex(key) == CHOOSE i \in 1..Len(engine.block_defs) : engine.block_defs[i].key = key

KeyPos(key) == CHOOSE k \in 1..Len(ActiveKeys) : ActiveKeys[k] = key

\* C6 as stated: blocks of equal final priority are considered in the order in
\* which their BlockDefs were defined, for every mode configuration.
C6_TiesInDefinitionOrder ==
    Done =>
        \A p, q \in 1..Len(run.scoreable) :
            LET x == run.scoreable[p]
                y == run.scoreable[q]
            IN  (p < q /\ x.priority = y.priority /\ IsRegular(x) /\ IsRegular(y))
                    => DefIndex(x.key) < DefIndex(y.key)

\* C6 amended: blocks of equal final priority are considered in the order in
\* which the call built them: the order of the mode's block_keys when the mode
\* lists block keys, the BlockDefs' definition order otherwise, and a memory
\* block after every regular block.
C6_TiesInBuildOrder ==
    Done =>
        /\ run.scoreable = [k \in 1..Cardinality(ScoreIdx) |-> run.blocks[AtTurn(k)]]
        /\ \A i, j \in 1..Len(run.blocks) :
              i < j =>
                  /\ (IsRegular(run.blocks[i]) /\ IsRegular(run.blocks[j]))
                        => KeyPos(run.blocks[i].key) < KeyPos(run.blocks[j].key)
                  /\ IsRegular(run.blocks[j]) => IsRegular(run.blocks[i])

\* a tie under a mode that lists its keys in another order than the definitions
C6_Witness ==
    /\ Done
    /\ Len(run.mode_config.block_keys) > 0
    /\ \E p, q \in 1..Len(run.scoreable) :
          /\ p < q
          /\ run.scoreable[p].priority = run.scoreable[q].priority
          /\ DefIndex(run.scoreable[p].key) > DefIndex(run.scoreable[q].key)

(* C7 *)

\* C7: an active BlockDef without raw data gets a manifest entry with
\* included = false and exclude_reason 'no data'.
C7_NoDataRecorded ==
    Done =>
        \A d \in ActiveDefs :
            args.data[d.gatherer_key] = None
                => \E e \in Entries :
                      e.key = d.key /\ ~e.included /\ e.exclude_reason = "no data"

(* C8 *)

GateClosed(d) ==
    /\ args.data[d.gatherer_key] # None
    /\ ~ShouldInclude(d.should_include, args.data[d.gatherer_key], M.situation)

\* C8: a block whose data is present and whose gate returns false has a
\* manifest entry with included = false and exclude_reason 'should_include
\* gate: False', is included under no budget, and its format function is not
\* called in that run.
C8_GateExcluded ==
    Done =>
        \A d \in ActiveDefs :
            GateClosed(d)
                => /\ \E e \in Entries :
                         e.key = d.key /\ ~e.included /\ e.exclude_reason = GateReason
                   /\ \A e \in Entries : e.key = d.key => ~e.included
                   /\ d.key \notin run.format_calls

\* the gate is closed while the budget has room left and other blocks were formatted
C8_Witness ==
    /\ Done
    /\ \E d \in ActiveDefs : GateClosed(d)
    /\ M.budget.remaining_tokens > 0
    /\ run.format_calls # {}

-----------------------------------------------------------------------------
(* C9 *)

Rules == {engine.scoring_rules[i] : i \in 1..Len(engine.scoring_rules)}

Fires(rule) == RuleCondition(rule.condition, M.situation)

\* the rule signals a block of this key is due, in the order of the rules
ExpRuleSignals(key) ==
    LET due == SelectSeq(engine.scoring_rules,
                         LAMBDA r : Fires(r) /\ Get(r.adjustments, key, 0) # 0)
    IN  [i \in 1..Len(due) |-> RuleSignal(due[i], key)]

\* C9 as stated: for each scoring rule whose condition holds on the Situation,
\* every block whose key is in the rule's adjustment map has its priority
\* changed by that delta and the signal 'rule:<name>:<signed-delta>' appended;
\* a rule whose condition is false changes no priority and adds no signal.
C9_RuleSignals ==
    Done =>
        \A e \in Entries :
            /\ \A r \in Rules :
                  e.key \in DOMAIN r.adjustments =>
                      CountIn(RuleSignal(r, e.key), e.signals) = IF Fires(r) THEN 1 ELSE 0
            /\ e.final_priority
                  = Clamp(StartPriority(e) + GoalPart(e)
                          + RuleSum(engine.scoring_rules, M.situation, e.key))

\* C9 amended: for each scoring rule whose condition holds, every block built
\* from a block definition whose key has a non-zero delta in the rule's map has
\* its priority changed by that delta (before the clamp to [0,100]) and the
\* signal 'rule:<name>:<signed-delta>' appended once, after the goal signals and
\* in the order of the rules; a zero delta adds no signal, a rule whose
\* condition is false changes no priority and adds no signal, and a memory
\* block receives no rule delta and no signal even when a rule names its key.
C9_RuleSignalsNonZero ==
    Done =>
        \A e \in Entries :
            IF IsRegular(e)
            THEN LET due == ExpRuleSignals(e.key)
                     n == Len(e.signals)
                 IN  /\ Len(due) <= n
                     /\ SubSeq(e.signals, n - Len(due) + 1, n) = due
                     /\ \A i \in 1..(n - Len(due)), r \in Rules :
                           e.key \in DOMAIN r.adjustments => e.signals[i] # RuleSignal(r, e.key)
                     /\ e.final_priority = Clamp(RawPriority(e))
            ELSE /\ e.final_priority = e.base_priority
                 /\ \A i \in 1..Len(e.signals), r \in Rules :
                       e.key \in DOMAIN r.adjustments => e.signals[i] # RuleSignal(r, e.key)

\* the +25 rule fires on a Conditional block (60 -> 85) whose neighbour has a
\* zero delta in the same rule, and a second rule of the engine does not fire
C9_Witness ==
    /\ Done
    /\ \E r \in Rules : ~Fires(r) /\ "b" \in DOMAIN r.adjustments
    /\ \E e \in Entries :
          /\ e.key = "b" /\ e.base_priority = 60 /\ e.final_priority = 85
          /\ e.signals = <<"rule:boost_b:+25">>
    /\ \E e \in Entries : e.key = "c" /\ e.signals = <<>>

-----------------------------------------------------------------------------
(* C10 *)

ActiveGoals == SelectSeq(args.goals, LAMBDA g : g.status = "active")

\* the goal signals a block of this key is due, in the order of the goals
ExpGoalSignals(key) ==
    LET due == SelectSeq(ActiveGoals, LAMBDA g : Get(g.priority_adjustments, key, 0) # 0)
    IN  [i \in 1..Len(due) |-> GoalSignal(due[i], key)]

\* the same call made with the active goals only
ActiveOnly == assemble(engine, [args EXCEPT !.goals = ActiveGoals], M.timestamp)

\* C10 as stated: only goals whose status is active affect an assembly: an
\* active goal adds its per-key delta to each matching block and appends
\* 'goal:<name>:<signed-delta>'; a goal that is paused, completed or abandoned
\* changes no block priority, adds no signal and is not listed in the text.
C10_ActiveGoalsOnly ==
    Done =>
        /\ \A e \in Entries :
              /\ \A i \in 1..Len(args.goals) :
                    e.key \in DOMAIN args.goals[i].priority_adjustments =>
                        (args.goals[i].status = "active"
                            => CountIn(GoalSignal(args.goals[i], e.key), e.signals) >= 1)
              /\ e.final_priority
                    = Clamp(StartPriority(e) + GoalSum(args.goals, e.key) + RulePart(e))
        /\ Last.text = ActiveOnly.text
        /\ M = ActiveOnly.manifest

\* C10 amended: only goals whose status is active affect an assembly: an active
\* goal adds its non-zero per-key delta to each matching block built from a
\* block definition and appends 'goal:<name>:<signed-delta>', the goal signals
\* coming first and in the order of the goals; a zero delta adds no signal and
\* a memory block receives no goal delta and no signal; a goal that is paused,
\* completed or abandoned changes nothing: text and manifest are those of the
\* call made without it.
C10_ActiveGoalsNonZero ==
    Done =>
        /\ \A e \in Entries :
              IF IsRegular(e)
              THEN LET due == ExpGoalSignals(e.key)
                       n == Len(e.signals)
                   IN  /\ Len(due) <= n
                       /\ SubSeq(e.signals, 1, Len(due)) = due
                       /\ \A i \in (Len(due) + 1)..n, j \in 1..Len(args.goals) :
                             e.key \in DOMAIN args.goals[j].priority_adjustments
                                 => e.signals[i] # GoalSignal(args.goals[j], e.key)
                       /\ e.final_priority = Clamp(RawPriority(e))
              ELSE /\ e.final_priority = e.base_priority
                   /\ \A i \in 1..Len(e.signals), j \in 1..Len(args.goals) :
                         e.key \in DOMAIN args.goals[j].priority_adjustments
                             => e.signals[i] # GoalSignal(args.goals[j], e.key)
        /\ Last.text = ActiveOnly.text
        /\ M = ActiveOnly.manifest

\* an active and a paused goal both name the Conditional block: only the active
\* one moves it (60 -> 85) and leaves a signal
C10_Witness ==
    /\ Done
    /\ \E i, j \in 1..Len(args.goals) :
          /\ args.goals[i].status = "active" /\ args.goals[j].status = "paused"
          /\ Get(args.goals[i].priority_adjustments, "b", 0) = 25
          /\ Get(args.goals[j].priority_adjustments, "b", 0) = 50
    /\ \E e \in Entries :
          /\ e.key = "b" /\ e.base_priority = 60 /\ e.final_priority = 85
          /\ e.signals = <<"goal:focus:+25">>

-----------------------------------------------------------------------------
(* C11 *)

MemoryCategory ==
    {"behavioral_pattern", "coaching_thread", "emotional_signature",
     "domain_knowledge", "breakthrough_moment"}

\* the memories passed to the call that are not archived
Live == SelectSeq(args.memories, LAMBDA m : m.stage # "archived")

\* the manifest entries that are not built from a block definition
MemoryEntries == SelectSeq(M.entries, LAMBDA e : ~IsRegular(e))

\* the same call made without the archived memories
LiveOnly == assemble(engine, [args EXCEPT !.memories = Live], M.timestamp)

\* C11: every memory passed to assemble() whose stage is not archived yields
\* exactly one candidate block with category 'memory.<category>' in the
\* manifest, and an archived memory yields no block and never appears in the
\* text: text and manifest are those of the call made without it.
C11_MemoryBlocks ==
    Done =>
        /\ Len(MemoryEntries) = Len(Live)
        /\ \A c \in MemoryCategory :
              Len(SelectSeq(MemoryEntries, LAMBDA e : e.category = "memory." \o c))
              = Len(SelectSeq(Live, LAMBDA m : m.category = c))
        /\ Last.text = LiveOnly.text
        /\ M = LiveOnly.manifest

\* an archived and a live memory are passed; the live one alone has an entry,
\* and it is in the text
C11_Witness ==
    /\ Done
    /\ Len(args.memories) = 2
    /\ Len(Live) = 1
    /\ Len(MemoryEntries) = 1
    /\ MemoryEntries[1].included

-----------------------------------------------------------------------------
(* C12 *)

GoalOrRuleSignals(key) ==
    {GoalSignal(args.goals[i], key) :
        i \in {j \in 1..Len(args.goals) : key \in DOMAIN args.goals[j].priority_adjustments}}
    \cup {RuleSignal(r, key) : r \in {q \in Rules : key \in DOMAIN q.adjustments}}

\* C12: a memory block's final priority in the manifest is exactly
\* 40 + 40 * confidence (confidence in twentieths: 40 + 2 * confidence); no
\* goal or rule delta is applied to it and no goal or rule signal is recorded
\* on it, even when a goal or a rule names the memory block's key.
C12_MemoryPriority ==
    Done =>
        /\ \A m \in {Live[i] : i \in 1..Len(Live)} :
              \E e \in Entries :
                  /\ e.key = MemoryKey(m)
                  /\ e.final_priority = 40 + 2 * m.confidence
        /\ \A i \in 1..Len(MemoryEntries) :
              LET e == MemoryEntries[i]
              IN  /\ \E m \in {Live[j] : j \in 1..Len(Live)} :
                        /\ e.key = MemoryKey(m)
                        /\ e.final_priority = 40 + 2 * m.confidence
                        /\ e.signals = <<"confidence:" \o ConfidenceStr(m.confidence),
                                         "stage:" \o m.stage>>
                  /\ \A k \in 1..Len(e.signals) : e.signals[k] \notin GoalOrRuleSignals(e.key)

\* an active goal (-30) and a firing rule (+15) both name memory:m1, whose
\* entry keeps 40 + 40 * 1.0 = 80
C12_Witness ==
    /\ Done
    /\ \E i \in 1..Len(args.goals) :
          /\ args.goals[i].status = "active"
          /\ Get(args.goals[i].priority_adjustments, "memory:m1", 0) = -30
    /\ \E r \in Rules : Fires(r) /\ Get(r.adjustments, "memory:m1", 0) = 15
    /\ \E e \in Entries : e.key = "memory:m1" /\ e.final_priority = 80

-----------------------------------------------------------------------------
(* C13 *)

\* the latest call named a mode the engine has no ModeConfig for
UnknownMode == Done /\ M.mode \notin DOMAIN engine.modes

\* C13 as stated: a mode name that is not among the engine's configured modes
\* is resolved as the 'default' mode: the run uses the budget and the active
\* block keys of the engine's 'default' ModeConfig.
C13_UnknownModeIsDefault ==
    UnknownMode =>
        /\ M.budget.total_tokens = engine.modes["default"].budget
        /\ run.mode_config.block_keys = engine.modes["default"].block_keys

\* C13 amended: a mode name that is not among the engine's configured modes is
\* resolved to a ModeConfig of that name with the engine's default budget and
\* no block keys, so that every block definition is active; this is the
\* 'default' ModeConfig only when the engine was built without modes.
C13_UnknownModeUsesDefaultBudget ==
    UnknownMode =>
        /\ run.mode_config = ModeConfig(M.mode, engine.default_budget, <<>>)
        /\ M.budget.total_tokens = engine.default_budget
        /\ ActiveKeys = BlockDefKeys(engine)
        /\ M.mode = run.situation.mode

\* an unknown mode on an engine whose 'default' mode has another budget and
\* leaves out block c: the call has the default budget and an entry for c
C13_Witness ==
    /\ UnknownMode
    /\ engine.modes["default"].budget # engine.default_budget
    /\ engine.modes["default"].block_keys = <<"b", "a">>
    /\ \E e \in Entries : e.key = "c"

-----------------------------------------------------------------------------
(* C14 *)

\* C14: over any sequence of assemble() calls on one engine, a call leaves its
\* arguments and the engine unchanged and never changes a text or a manifest
\* (the manifest's situation included) returned by an earlier call.
C14_NoCrossCallMutation ==
    [][returned' # returned =>
          /\ engine' = engine
          /\ args' = args
          /\ Len(returned) > 0 => returned'[1] = returned[Len(returned)]]_vars

-----------------------------------------------------------------------------
(* C15 *)

\* the latest lifecycle event
Event == IF Len(life.trail) = 0 THEN "" ELSE life.trail[Len(life.trail)]

\* C15: a reinforce event increments the occurrence count by 1 and sets
\* confidence to min(1.0, prior + 0.15); then the stage moves draft->reinforced
\* iff the new confidence is >= 0.4, reinforced->mature iff it is >= 0.7,
\* decaying->reinforced always (with confidence raised to at least 0.4), and is
\* otherwise unchanged; two reinforcements of a fresh draft (confidence 0.2)
\* leave it in stage reinforced.
C15_Reinforce ==
    /\ Event = "reinforce" =>
          LET was == life.before
              is == life.memory
              raised == FloatMin(Float(100), FloatPlus015(was.confidence))
          IN  /\ is.temporal.occurrences = was.temporal.occurrences + 1
              /\ is.confidence = IF was.stage = "decaying" THEN FloatMax(Float(40), raised)
                                 ELSE raised
              /\ is.stage =
                    IF was.stage = "draft"
                    THEN (IF FloatLess(raised, Float(40)) THEN "draft" ELSE "reinforced")
                    ELSE IF was.stage = "reinforced"
                    THEN (IF FloatLess(raised, Float(70)) THEN "reinforced" ELSE "mature")
                    ELSE IF was.stage = "decaying" THEN "reinforced"
                    ELSE was.stage
    /\ (/\ life.trail = <<"reinforce", "reinforce">>
        /\ life.origin.stage = "draft"
        /\ life.origin.confidence = Float(20))
          => life.memory.stage = "reinforced" /\ life.memory.confidence = Float(50)

\* the second reinforcement of a fresh draft takes it to reinforced
C15_Witness ==
    /\ life.trail = <<"reinforce", "reinforce">>
    /\ life.origin.stage = "draft"
    /\ life.origin.confidence = Float(20)
    /\ life.before.stage = "draft"
    /\ life.before.confidence = Float(35)
    /\ life.memory.stage = "reinforced"

-----------------------------------------------------------------------------
(* C16 *)

\* C16: a decay event sets confidence to max(0.0, prior - 0.05) and leaves the
\* occurrence count unchanged; the stage changes only from mature to decaying,
\* exactly when the new confidence is < 0.3, and a memory in any other stage
\* keeps its stage under decay however low its confidence falls.
C16_Decay ==
    Event = "decay" =>
        LET was == life.before
            is == life.memory
            faded == FloatMax(Float(0), FloatMinus005(was.confidence))
        IN  /\ is.confidence = faded
            /\ is.temporal.occurrences = was.temporal.occurrences
            /\ is.stage = IF was.stage = "mature" /\ FloatLess(faded, Float(30))
                          THEN "decaying" ELSE was.stage

\* a mature memory falls below 0.3 and turns decaying
C16_Witness ==
    /\ Event = "decay"
    /\ life.before.stage = "mature"
    /\ ~FloatLess(life.before.confidence, Float(30))
    /\ life.memory.stage = "decaying"

-----------------------------------------------------------------------------
(* C17 *)

\* C17: revise_memory(old, summary, detail) returns (old, new) where old has
\* stage archived and old.superseded_by is the id of the new memory, and new is
\* a new memory identity in stage draft with confidence 0.3 and occurrence
\* count 1, carrying old's tags, old's metadata plus a revised_from reference
\* to old's id, and detail defaulting to a back-reference to old's summary.
C17_Revise ==
    Event = "revise" =>
        LET was == life.before
            old == life.memory
            new == life.revised[1]
            new_detail == life.revised[2]
        IN  /\ old.stage = "archived"
            /\ old.superseded_by = new.id
            /\ new.id # None
            /\ new.id # was.id
            /\ new.stage = "draft"
            /\ new.confidence = Float(30)
            /\ new.temporal.occurrences = 1
            /\ new.tags = was.tags
            /\ \A k \in DOMAIN was.metadata \ {"revised_from"} :
                  k \in DOMAIN new.metadata /\ new.metadata[k] = was.metadata[k]
            /\ new.metadata["revised_from"] = was.id
            /\ new.detail = IF new_detail # "" THEN new_detail
                            ELSE "Previously: " \o was.summary

-----------------------------------------------------------------------------
(* C18, C19, C20 *)

\* The observations of the list given to the latest call that fall in the
\* current window
InCurrentWindow ==
    {i \in 1..Len(temporal.before) :
        temporal.now - temporal.before[i][1] <= Windows.current}

\* The list given to the latest call, reordered by a permutation of its indices
Reordered(f) == [i \in 1..Len(temporal.before) |-> temporal.before[f[i]]]

\* C18: compute_temporal classifies the trend as stable when it is given no
\* observations (all other fields zero), when fewer than 2 observations fall in
\* the current window, or when |current average - previous average| < 0.5;
\* otherwise improving when the delta is > 0 and declining when it is < 0;
\* occurrences equals the number of observations supplied.
C18_Trend ==
    temporal.event = "compute" =>
        LET given == temporal.before
            r == temporal.result
            d == FSub(r.current, r.previous)
        IN  /\ r.occurrences = Len(given)
            /\ Len(given) = 0 => r = TemporalMetadataDefault
            /\ r.delta = d
            /\ r.trend = IF Len(given) = 0 \/ Cardinality(InCurrentWindow) < 2
                            \/ FAbsLessHalf(d)
                         THEN "stable"
                         ELSE IF FPositive(d) THEN "improving" ELSE "declining"
            /\ r.trend = "declining" => FPositive(FSub(r.previous, r.current))

C18_Witness ==
    /\ temporal.event = "compute"
    /\ Cardinality(InCurrentWindow) >= 2
    /\ temporal.result.previous # Value(0, 0)
    /\ temporal.result.trend = "improving"

\* C19: compute_temporal is order-insensitive: for a fixed evaluation time and
\* fixed windows, every permutation of the same list of observations produces
\* the same TemporalMetadata.
C19_OrderInsensitive ==
    temporal.event = "compute" =>
        \A f \in Permutations(1..Len(temporal.before)) :
            compute_temporal(Reordered(f), Windows.current, Windows.previous,
                             Windows.baseline, temporal.now,
                             temporal.compensated).result = temporal.result

\* C20: compute_temporal is a pure function of its argument: after the call
\* the caller's observation list holds the same elements in the same order as
\* before the call.
C20_ArgumentUntouched ==
    temporal.event = "compute" => temporal.values = temporal.before

-----------------------------------------------------------------------------
(* C21 *)

\* the reason budget selection can give in the latest call
IsBudgetReason(reason) ==
    \E remaining \in Min(0, M.budget.total_tokens)..Max(0, M.budget.total_tokens) :
        reason = BudgetReason(remaining)

\* C21: in every manifest returned by assemble(), an entry has a non-null
\* exclude_reason exactly when its included flag is false: no included block
\* carries an exclusion reason, and every excluded block carries one (gate or
\* budget).
C21_ReasonIffExcluded ==
    Done =>
        \A i \in 1..Len(M.entries) :
            LET e == M.entries[i]
            IN  /\ e.included <=> e.exclude_reason = None
                /\ ~e.included =>
                      e.exclude_reason = GateReason \/ IsBudgetReason(e.exclude_reason)

C21_Witness ==
    /\ Done
    /\ \E i, j, k \in 1..Len(M.entries) :
          /\ M.entries[i].included
          /\ M.entries[j].exclude_reason = GateReason
          /\ ~M.entries[k].included /\ IsBudgetReason(M.entries[k].exclude_reason)

-----------------------------------------------------------------------------
(* C22 *)

\* C22: within one assembly run every block key is unique: no two entries of a
\* manifest (regular blocks and memory blocks together) have the same key, for
\* every mode configuration and every list of memories.
C22_UniqueKeys ==
    Done =>
        \A i, j \in 1..Len(M.entries) :
            M.entries[i].key = M.entries[j].key => i = j

-----------------------------------------------------------------------------
(* C23 *)

\* the tier defaults the documentation gives
TierDefault(tier) ==
    IF tier = Tier.always THEN 90
    ELSE IF tier = Tier.conditional THEN 60
    ELSE 30

\* C23: a block definition's base priority is its explicit base-priority
\* override whenever one is supplied (any value), and the tier default (Always
\* 90, Conditional 60, StrongSignal 30) only when none is supplied; the runtime
\* definition (RuntimeBlockDef.base_priority) and the serializable definition
\* (BlockDef.effective_priority) agree for every tier and override.
C23_OverrideWins ==
    \A i \in 1..Len(declared) :
        LET d == declared[i]
            expected == IF d.override # <<>> THEN d.override[1]
                        ELSE TierDefault(d.tier)
        IN  /\ d.runtime.base_priority = expected
            /\ effective_priority(d.serial) = expected
            /\ d.runtime.base_priority = effective_priority(d.serial)

-----------------------------------------------------------------------------
(* C24 *)

\* the events so far are reinforce and decay events only
OnlyAdvanced == \A i \in 1..Len(life.trail) : life.trail[i] \in {"reinforce", "decay"}

InUnitInterval(c) == ~FloatLess(c, Float(0)) /\ ~FloatLess(Float(100), c)

\* C24: over any sequence of reinforce and decay events applied to a memory
\* whose confidence starts in [0, 1], the confidence stays in [0, 1] after
\* every event.
C24_ConfidenceInRange ==
    InUnitInterval(life.origin.confidence) /\ OnlyAdvanced =>
        InUnitInterval(life.memory.confidence)

\* a reinforce event that met the cap: prior + 0.15 exceeds 1.0
C24_Witness ==
    /\ OnlyAdvanced
    /\ Len(life.trail) = MaxEvents
    /\ life.trail[1] = "decay"
    /\ Event = "reinforce"
    /\ FloatLess(Float(85), life.before.confidence)
    /\ FloatLess(life.before.confidence, Float(100))
    /\ life.memory.confidence = Float(100)

-----------------------------------------------------------------------------
(* C25 *)

\* the blocks of the latest call as _build_blocks made them
Built == _build_blocks(engine, args.data, run.situation, run.mode_config).blocks

Priorities(bs) == [i \in 1..Len(bs) |-> bs[i].priority]

Permuted(q, f) == [i \in 1..Len(q) |-> q[f[i]]]

\* goals first, then rules, then the clamp: the order of the code
GoalsFirst(goals, rules) ==
    Priorities(_apply_scoring_rules(_apply_goal_adjustments(Built, goals),
                                    run.situation, rules))

\* rules first, then goals, then the clamp
RulesFirst(goals, rules) ==
    LET ruled == RuleLoop(Built, rules, run.situation)
        adjusted == _apply_goal_adjustments(ruled, goals)
    IN  [i \in 1..Len(adjusted) |-> Clamp(adjusted[i].priority)]

OrderFree ==
    \A f \in Permutations(1..Len(args.goals)) :
    \A g \in Permutations(1..Len(engine.scoring_rules)) :
        LET goals == Permuted(args.goals, f)
            rules == Permuted(engine.scoring_rules, g)
        IN  /\ GoalsFirst(goals, rules) = GoalsFirst(args.goals, engine.scoring_rules)
            /\ RulesFirst(goals, rules) = GoalsFirst(args.goals, engine.scoring_rules)

-----------------------------------------------------------------------------
(* C26 *)

\* C26: signals are recorded in a fixed order that follows the phase order
\* goals -> rules -> clamp -> memory injection: in every block's signal list
\* all 'goal:' signals precede all 'rule:' signals, goal signals appear in the
\* order of the goals list and rule signals in the order of the engine's rule
\* list.
C26_SignalOrder ==
    Done =>
        \A e \in Entries :
            IsRegular(e) => e.signals = ExpGoalSignals(e.key) \o ExpRuleSignals(e.key)

\* a block with the signals of two different goals and of two rules
C26_Witness ==
    /\ Done
    /\ \E e \in Entries :
          /\ IsRegular(e)
          /\ Len(ExpGoalSignals(e.key)) = 2
          /\ ExpGoalSignals(e.key)[1] # ExpGoalSignals(e.key)[2]
          /\ Len(ExpRuleSignals(e.key)) = 2
          /\ Len(e.signals) = 4

-----------------------------------------------------------------------------
(* C27 *)

\* the place of a block's category in the lexicographic order of categories
CategoryRank(b) ==
    CHOOSE r \in 1..Len(CategoryOrder) :
        CategoryOrder[r] = (IF b.category = "" THEN "general" ELSE b.category)

\* the included blocks of the latest call in the order of their sections:
\* by category, and by position in the included list inside a category
SectionOrder ==
    CHOOSE p \in Permutations(1..Len(run.included)) :
        \A i, j \in 1..Len(run.included) :
            i < j => \/ CategoryRank(run.included[p[i]]) < CategoryRank(run.included[p[j]])
                     \/ /\ CategoryRank(run.included[p[i]]) = CategoryRank(run.included[p[j]])
                        /\ p[i] < p[j]

\* the sections in front of the block sections
LeadingSections ==
    (IF run.situation.narrative # ""
     THEN <<"## Current Situation\n" \o run.situation.narrative \o "\n">> ELSE <<>>)
    \o (IF Len(ActiveGoals) > 0
        THEN <<Join(<<"## Active Goals">>
                    \o [i \in 1..Len(ActiveGoals) |-> GoalLine(ActiveGoals[i])]) \o "\n">>
        ELSE <<>>)

BlockSections ==
    [i \in 1..Len(run.included) |->
        "## " \o run.included[SectionOrder[i]].key \o "\n"
        \o run.included[SectionOrder[i]].formatted_text \o "\n"]

\* C27: the assembled text contains exactly one '## <key>' section per
\* included block and none for an excluded block; block sections are grouped
\* by category in lexicographic category order and, inside one category, keep
\* the blocks' order in the included list (priority descending); they come
\* after the optional 'Current Situation' and 'Active Goals' sections.
C27_Sections ==
    Done =>
        /\ Last.text = Join(LeadingSections \o BlockSections)
        /\ M.assembled_text = Last.text
        /\ \A i \in 1..Len(run.included) : run.included[i].included
        /\ \A i \in 1..Len(run.excluded) : ~run.excluded[i].included
        /\ \A i, j \in 1..Len(run.included) :
              i < j => run.included[i].priority >= run.included[j].priority

\* two included blocks share a category, the category order differs from the
\* order of the included list, a block is excluded and active goals are listed
C27_Witness ==
    /\ Done
    /\ Len(ActiveGoals) > 0
    /\ Len(run.excluded) > 0
    /\ \E i, j \in 1..Len(run.included) :
          i < j /\ CategoryRank(run.included[i]) = CategoryRank(run.included[j])
    /\ \E i, j \in 1..Len(run.included) :
          i < j /\ CategoryRank(run.included[i]) > CategoryRank(run.included[j])

-----------------------------------------------------------------------------
(* C28 *)

\* C28: a block pre-excluded by its inclusion gate bypasses scoring: no goal
\* delta and no rule delta is applied to it and no goal/rule signal is recorded
\* on it, and it goes to the excluded set with its gate reason, which budget
\* selection never overwrites.
C28_GateBypassesScoring ==
    Done =>
        \A d \in ActiveDefs :
            GateClosed(d) =>
                \A e \in Entries :
                    e.key = d.key
                        => /\ e.final_priority = 0
                           /\ e.signals = <<>>
                           /\ ~e.included
                           /\ e.exclude_reason = GateReason

-----------------------------------------------------------------------------
(* C29 *)

\* C29: the archived stage is entered only through revise_memory and is never
\* left: no sequence of reinforce or decay events moves a memory into stage
\* archived, and none changes the stage of a memory that is archived.
C29_ArchivedIsFinal ==
    [][/\ (life.memory.stage # "archived" /\ life'.memory.stage = "archived")
              => Event' = "revise"
       /\ life.memory.stage = "archived" => life'.memory.stage = "archived"]_vars

\* a memory archived by revise_memory went through a reinforce and a decay event
C29_Witness ==
    /\ life.origin.stage # "archived"
    /\ life.trail = <<"revise", "reinforce", "decay">>
    /\ life.memory.stage = "archived"

-----------------------------------------------------------------------------
(* C30 *)

\* the stage moves one reinforce event can make
OneStageUp ==
    {<<"draft", "reinforced">>, <<"reinforced", "mature">>, <<"decaying", "reinforced">>}

\* C30: from a memory in stage draft, reinforced or decaying with any
\* confidence in [0, 1], a run of consecutive reinforce events reaches stage
\* mature after finitely many events (advancing at most one stage per event),
\* and a mature memory stays mature under every further reinforce event.
C30_ReachesMature ==
    /\ [][\/ life'.memory.stage = life.memory.stage
          \/ <<life.memory.stage, life'.memory.stage>> \in OneStageUp]_vars
    /\ [][life.memory.stage = "mature" => life'.memory.stage = "mature"]_vars
    /\ (life.memory.stage \in {"draft", "reinforced", "decaying"})
           ~> (life.memory.stage = "mature")

\* a draft without confidence became mature and was reinforced further
C30_Witness ==
    /\ life.origin.stage = "draft"
    /\ life.origin.confidence = Float(0)
    /\ life.before.stage = "mature"
    /\ life.memory.stage = "mature"
    /\ Len(life.trail) = MaxRun
    /\ \A i \in 1..Len(life.trail) : life.trail[i] = "reinforce"

=============================================================================
